---- MODULE Spec2Model ----
(***************************************************************************)
(* narrative-surgeon desktop: the cached, retrying database access layer.  *)
(*                                                                         *)
(*   error.rs   AppError, is_retryable, retry_delay_ms, ErrorLogger,       *)
(*              RetryConfig, retry_with_backoff                            *)
(*   db.rs      DatabaseService { pool, query_cache, error_logger },       *)
(*              get_connection, execute_with_cache, clear_cache            *)
(*                                                                         *)
(* Two specifications:                                                     *)
(*   SpecRetry  retry_with_backoff alone, run on an operation whose        *)
(*              outcome at each invocation is chosen by the environment    *)
(*   Spec       DatabaseService used by concurrent tasks, each calling     *)
(*              execute_with_cache / clear_cache                           *)
(***************************************************************************)
EXTENDS Integers, Sequences, FiniteSets, TLC

VARIABLES
    rw,           \* retry_with_backoff frame of SpecRetry
    cmd,          \* the *_safe command handler in progress (commands.rs)
    fn,           \* a pure function applied to an input: [name, input, output]
    pool,         \* DatabaseService.pool: 0 = None, h > 0 = Some(handle h)
    poolLock,     \* owner of the pool mutex: 0 = free, else the task
    query_cache,  \* DatabaseService.query_cache: key -> serialized result
    errorLog,     \* the error log file: the lines appended by log_error
    task,         \* per task: position in execute_with_cache and its locals
    store,        \* the store behind the handle (external collaborator)
    now,          \* wall clock, in seconds (the code never reads it)
    env,          \* what the environment may still do: calls, faults, ticks
    hist          \* history variables, read only by the properties

vars == <<rw, cmd, fn, pool, poolLock, query_cache, errorLog, task, store, now, env, hist>>

svcVars == <<pool, poolLock, query_cache, errorLog, task, store, now, env, hist>>

(***************************************************************************)
(* Bounds of the model                                                     *)
(***************************************************************************)
\* calls of execute_with_cache in Spec, over all tasks
MaxCalls == 2
\* failures the environment may inject in Spec: of the store (open, PRAGMA, statement),
\* of the log file's append, of the serializer
MaxFaults == 2
\* calls of execute_with_cache in SpecSeq
SeqCalls == 2
\* failures the environment may inject in SpecSeq
SeqFaults == 2
\* calls of execute_with_cache in SpecCold
ColdCalls == 1
\* failures the environment may inject in SpecCold: enough to exhaust the
\* facade's loop through get_connection's loops (3 x 3)
ColdFaults == 9
\* clock ticks of SpecSeq; each tick is TickSecs seconds
MaxTicks == 2
\* largest max_attempts tried in SpecRetry
MaxAttemptsTried == 3

\* the tasks calling the service concurrently
Tasks == {1, 2}

NoneVal == -1

(***************************************************************************)
(* AppError (error.rs 9-122).  The fields the retry policy, the facade and *)
(* user_message read, and those a caller can vary; the timestamp is left   *)
(* out (nothing branches on it).  An Option that is None is "None" for a   *)
(* String and NoneVal for a number; a field a kind does not have is None.  *)
(***************************************************************************)
ErrorKinds ==
    {"Database", "FileSystem", "Network", "Validation", "Export", "Window",
     "Permission", "Configuration", "NotFound", "Conflict", "RateLimit",
     "Timeout", "Internal"}

MkError(kind, message, query, status_code, retry_after) ==
    [kind |-> kind, message |-> message, query |-> query,
     status_code |-> status_code, retry_after |-> retry_after,
     code |-> "None", url |-> "None", field |-> "None", value |-> "None",
     operation |-> "None", format |-> "None", resource |-> "None",
     required_permission |-> "None"]

\* AppError::validation_field(message, field, value)
validation_field(message, field, value) ==
    [MkError("Validation", message, "None", NoneVal, NoneVal)
       EXCEPT !.field = field, !.value = value]

\* AppError::database(message)
database(message) == MkError("Database", message, "None", NoneVal, NoneVal)

\* AppError::database_with_query(message, query)
database_with_query(message, query) ==
    MkError("Database", message, query, NoneVal, NoneVal)

\* AppError::internal(message)
internal(message) == MkError("Internal", message, "None", NoneVal, NoneVal)

NoError == MkError("None", "", "None", NoneVal, NoneVal)

\* a classification that retries every Network error
is_retryable_any_status(e) ==
    e.kind \in {"Network", "Database", "Timeout", "RateLimit"}

\* AppError::is_retryable
is_retryable(e) ==
    CASE e.kind = "Network" ->
            IF e.status_code # NoneVal
            THEN e.status_code >= 500 \/ e.status_code = 429
            ELSE TRUE
      [] e.kind = "Database" -> TRUE
      [] e.kind = "FileSystem" -> FALSE
      [] e.kind = "Timeout" -> TRUE
      [] e.kind = "RateLimit" -> TRUE
      [] e.kind = "Internal" -> FALSE
      [] OTHER -> FALSE

\* a hint that ignores the carried retry_after
retry_delay_ms_default(e) ==
    CASE e.kind = "RateLimit" -> 1000
      [] e.kind = "Network" -> 1000
      [] e.kind = "Database" -> 500
      [] e.kind = "Timeout" -> 2000
      [] OTHER -> NoneVal

\* AppError::retry_delay_ms; NoneVal is Option::None
retry_delay_ms(e) ==
    CASE e.kind = "RateLimit" ->
            IF e.retry_after # NoneVal THEN e.retry_after ELSE 1000
      [] e.kind = "Network" -> 1000
      [] e.kind = "Database" -> 500
      [] e.kind = "Timeout" -> 2000
      [] OTHER -> NoneVal

(***************************************************************************)
(* RetryConfig and retry_with_backoff (error.rs 421-468)                   *)
(* backoff_multiplier is kept in tenths (20 is 2.0).                       *)
(***************************************************************************)
MkRetryConfig(max_attempts, initial_delay_ms, max_delay_ms, backoff_tenths) ==
    [max_attempts |-> max_attempts, initial_delay_ms |-> initial_delay_ms,
     max_delay_ms |-> max_delay_ms, backoff_tenths |-> backoff_tenths]

\* impl Default for RetryConfig
RetryConfigDefault == MkRetryConfig(3, 1000, 10000, 20)

Min(a, b) == IF a <= b THEN a ELSE b

\* the guard of the sleep branch: attempt < config.max_attempts && error.is_retryable()
RetryAgainAlways(attempt, config, error) == attempt < config.max_attempts

RetryAgainOffByOne(attempt, config, error) ==
    attempt + 1 < config.max_attempts /\ is_retryable(error)

RetryAgain(attempt, config, error) ==
    attempt < config.max_attempts /\ is_retryable(error)

\* a sleep that ignores the error's hint
ActualDelayScheduled(error, delay_ms) == delay_ms

\* error.retry_delay_ms().unwrap_or(delay_ms)
ActualDelay(error, delay_ms) ==
    IF retry_delay_ms(error) # NoneVal THEN retry_delay_ms(error) ELSE delay_ms

\* a schedule without the cap
NextDelayUncapped(delay_ms, config) == (delay_ms * config.backoff_tenths) \div 10

\* (delay_ms as f64 * backoff_multiplier).min(max_delay_ms as f64) as u64
NextDelay(delay_ms, config) ==
    Min((delay_ms * config.backoff_tenths) \div 10, config.max_delay_ms)

(***************************************************************************)
(* AppResult<T>                                                            *)
(***************************************************************************)
Ok(v) == [ok |-> TRUE, value |-> v, error |-> NoError]

Err(e) == [ok |-> FALSE, value |-> NoneVal, error |-> e]

NoResult == [ok |-> FALSE, value |-> NoneVal, error |-> NoError]

(***************************************************************************)
(* SpecRetry: retry_with_backoff(operation, config) on its own.            *)
(* rw.pc: "start" before the for loop, "call" at operation().await,        *)
(* "sleep" at tokio::time::sleep, "done" once returned, "panicked" once    *)
(* last_error.unwrap() has aborted, "idle" when the harness is not run.    *)
(***************************************************************************)
\* what the operation can return to the retry loop
OpOutcomes ==
    { Ok(1),
      Err(database("Connection failed")),
      Err(MkError("Validation", "Non-retryable error", "None", NoneVal, NoneVal)),
      Err(MkError("Network", "Simulated failure", "None", NoneVal, NoneVal)),
      Err(MkError("Network", "Not found", "None", 404, NoneVal)),
      Err(MkError("RateLimit", "Slow down", "None", NoneVal, 50)),
      Err(internal("Bug")) }

\* the configurations tried: the default's delays and the tests' (db_tests.rs 198-203)
RetryConfigs ==
    { MkRetryConfig(n, d[1], d[2], d[3]) :
        n \in 0..MaxAttemptsTried,
        d \in {<<1000, 10000, 20>>, <<10, 100, 20>>, <<60, 100, 20>>, <<10, 100, 15>>} }

RetryFrame(pc, config) ==
    [pc |-> pc, config |-> config, attempt |-> 0,
     delay_ms |-> config.initial_delay_ms, last_error |-> NoError,
     calls |-> 0, outcomes |-> <<>>, sleeps |-> <<>>, result |-> NoResult]

RetryIdle == RetryFrame("idle", RetryConfigDefault)

\* no pure function is being applied
FnIdle == [name |-> "none", input |-> <<>>, output |-> <<>>, done |-> FALSE]

\* no command is being handled
CmdIdle ==
    [pc |-> "idle", inp |-> 0, attempt |-> 0, delay_ms |-> 0, stmt |-> 0,
     last_error |-> NoError, result |-> NoResult, calls |-> 0, loops |-> 0,
     left |-> 0, firstSent |-> 0, firstApplied |-> 0]

\* a loop that sleeps before every attempt
RetryStartSleepsFirst ==
    /\ rw.pc = "start"
    /\ rw' = IF rw.config.max_attempts >= 1
             THEN [rw EXCEPT !.pc = "sleep"]
             ELSE [rw EXCEPT !.pc = "panicked"]
    /\ UNCHANGED <<cmd, fn, svcVars>>

\* let mut last_error = None; let mut delay_ms = config.initial_delay_ms;
\* for attempt in 1..=config.max_attempts: an empty range falls through to
\* Err(last_error.unwrap()), which panics on None
RetryStart ==
    /\ rw.pc = "start"
    /\ rw' = IF rw.config.max_attempts >= 1
             THEN [rw EXCEPT !.pc = "call", !.attempt = 1]
             ELSE [rw EXCEPT !.pc = "panicked"]
    /\ UNCHANGED <<cmd, fn, svcVars>>

\* a loop that remembers the Ok and goes on to the next attempt
AfterCallKeepsGoing(f, out) ==
    IF out.ok /\ f.attempt < f.config.max_attempts
    THEN [f EXCEPT !.pc = "call", !.attempt = @ + 1, !.result = out]
    ELSE IF out.ok THEN [f EXCEPT !.pc = "done", !.result = out]
    ELSE IF RetryAgain(f.attempt, f.config, out.error)
         THEN [f EXCEPT !.pc = "sleep", !.last_error = out.error]
         ELSE [f EXCEPT !.pc = "done", !.last_error = out.error,
                        !.result = Err(out.error)]

\* a loop that keeps the first error instead of the last
AfterCallFirstError(f, out) ==
    LET e == IF f.last_error = NoError THEN out.error ELSE f.last_error
    IN  IF out.ok
        THEN [f EXCEPT !.pc = "done", !.result = out]
        ELSE IF RetryAgain(f.attempt, f.config, out.error)
             THEN [f EXCEPT !.pc = "sleep", !.last_error = e]
             ELSE [f EXCEPT !.pc = "done", !.last_error = e, !.result = Err(e)]

\* match operation().await { Ok(result) => return Ok(result), Err(error) => ... }
AfterCall(f, out) ==
    IF out.ok
    THEN [f EXCEPT !.pc = "done", !.result = out]
    ELSE IF RetryAgain(f.attempt, f.config, out.error)
         THEN [f EXCEPT !.pc = "sleep", !.last_error = out.error]
         ELSE [f EXCEPT !.pc = "done", !.last_error = out.error,
                        !.result = Err(out.error)]

\* one operation().await and the match on what it returned
RetryCall ==
    /\ rw.pc = "call"
    /\ \E out \in OpOutcomes :
         rw' = AfterCall([rw EXCEPT !.calls = @ + 1, !.outcomes = Append(@, out)],
                         out)
    /\ UNCHANGED <<cmd, fn, svcVars>>

\* sleep(actual_delay); delay_ms = min(delay_ms * multiplier, max_delay_ms); next attempt
RetrySleep ==
    /\ rw.pc = "sleep"
    /\ rw' = [rw EXCEPT !.pc = "call",
                        !.attempt = @ + 1,
                        !.sleeps = Append(@, ActualDelay(rw.last_error, rw.delay_ms)),
                        !.delay_ms = NextDelay(rw.delay_ms, rw.config)]
    /\ UNCHANGED <<cmd, fn, svcVars>>

NextRetry == RetryStart \/ RetryCall \/ RetrySleep

(***************************************************************************)
(* Text.  A Rust String is a sequence of one-character strings, so that    *)
(* trim / to_uppercase / starts_with / format! are computed, not assumed.  *)
(***************************************************************************)
LowerChars ==
    <<"a", "b", "c", "d", "e", "f", "g", "h", "i", "j", "k", "l", "m",
      "n", "o", "p", "q", "r", "s", "t", "u", "v", "w", "x", "y", "z">>

UpperChars ==
    <<"A", "B", "C", "D", "E", "F", "G", "H", "I", "J", "K", "L", "M",
      "N", "O", "P", "Q", "R", "S", "T", "U", "V", "W", "X", "Y", "Z">>

DigitChars == <<"0", "1", "2", "3", "4", "5", "6", "7", "8", "9">>

IsWhitespace(ch) == ch \in {" ", "\t", "\n", "\r"}

SetMin(S) == CHOOSE x \in S : \A y \in S : x <= y

SetMax(S) == CHOOSE x \in S : \A y \in S : x >= y

\* str::trim
trim(s) ==
    LET keep == {i \in 1..Len(s) : ~IsWhitespace(s[i])}
    IN  IF keep = {} THEN <<>> ELSE SubSeq(s, SetMin(keep), SetMax(keep))

\* str::to_uppercase, on the ASCII letters
to_uppercase(s) ==
    [i \in 1..Len(s) |->
        IF \E k \in 1..26 : LowerChars[k] = s[i]
        THEN UpperChars[CHOOSE k \in 1..26 : LowerChars[k] = s[i]]
        ELSE s[i]]

\* str::starts_with
starts_with(s, prefix) ==
    Len(s) >= Len(prefix) /\ SubSeq(s, 1, Len(prefix)) = prefix

\* char::escape_debug: quote, backslash and the control characters are escaped
EscapeCharNone(ch) == <<ch>>

EscapeChar(ch) ==
    CASE ch \in {"\"", "\\"} -> <<"\\", ch>>
      [] ch = "\n" -> <<"\\", "n">>
      [] ch = "\t" -> <<"\\", "t">>
      [] ch = "\r" -> <<"\\", "r">>
      [] OTHER -> <<ch>>

\* <str as Debug>::fmt: the escaped text in double quotes
RECURSIVE EscapeDebug(_)
EscapeDebug(s) ==
    IF s = <<>> THEN <<>>
    ELSE IF Len(s) = 1 THEN EscapeChar(s[1])
    ELSE LET half == Len(s) \div 2
         IN  EscapeDebug(SubSeq(s, 1, half)) \o EscapeDebug(SubSeq(s, half + 1, Len(s)))

DebugStr(s) == <<"\"">> \o EscapeDebug(s) \o <<"\"">>

\* <[String] as Debug>::fmt: ["a", "b"]
RECURSIVE DebugItems(_)
DebugItems(params) ==
    IF params = <<>> THEN <<>>
    ELSE IF Len(params) = 1 THEN DebugStr(params[1])
    ELSE DebugStr(params[1]) \o <<",", " ">> \o DebugItems(Tail(params))

DebugList(params) == <<"[">> \o DebugItems(params) \o <<"]">>

(***************************************************************************)
(* serde_json on the result values.  A result is a JSON number 0..99.      *)
(***************************************************************************)
\* serde_json::to_string
RECURSIVE to_string(_)
to_string(n) ==
    IF n < 10 THEN <<DigitChars[n + 1]>>
    ELSE to_string(n \div 10) \o <<DigitChars[(n % 10) + 1]>>

DigitOf(ch) == (CHOOSE k \in 1..10 : DigitChars[k] = ch) - 1

IsDigit(ch) == \E k \in 1..10 : DigitChars[k] = ch

RECURSIVE ParseDigits(_, _)
ParseDigits(s, acc) ==
    IF s = <<>> THEN acc ELSE ParseDigits(Tail(s), 10 * acc + DigitOf(Head(s)))

\* serde_json::from_str; an Err is mapped as at db.rs 158-159
from_str(s) ==
    IF /\ s # <<>>
       /\ \A i \in 1..Len(s) : IsDigit(s[i])
       /\ (Len(s) > 1 => s[1] # "0")
    THEN Ok(ParseDigits(s, 0))
    ELSE Err(internal("Failed to parse cached result"))

(***************************************************************************)
(* Texts whose length matters more than their letters (titles, bodies) are *)
(* kept run-length encoded: a sequence of [ch, n], n >= 1 copies of ch.    *)
(* A character outside ASCII is named by its code point ("U+00E9").        *)
(***************************************************************************)
\* bytes of the character's UTF-8 encoding
Utf8Len(ch) ==
    CASE ch = "U+00E9" -> 2
      [] ch = "U+20AC" -> 3
      [] OTHER -> 1

\* str::len: the length in bytes
RECURSIVE StrLen(_)
StrLen(t) ==
    IF t = <<>> THEN 0 ELSE Head(t).n * Utf8Len(Head(t).ch) + StrLen(Tail(t))

\* str::chars().count()
RECURSIVE CharCount(_)
CharCount(t) == IF t = <<>> THEN 0 ELSE Head(t).n + CharCount(Tail(t))

\* str::is_empty
is_empty(t) == StrLen(t) = 0

\* the text as a sequence of characters
RECURSIVE Expand(_)
Expand(t) ==
    IF t = <<>> THEN <<>>
    ELSE [i \in 1..Head(t).n |-> Head(t).ch] \o Expand(Tail(t))

\* n copies of ch
RunOf(ch, n) == <<[ch |-> ch, n |-> n]>>

\* str::split_whitespace().count()
WordCount(s) ==
    Cardinality({i \in 1..Len(s) :
                    ~IsWhitespace(s[i]) /\ (i = 1 \/ IsWhitespace(s[i - 1]))})

HexChars ==
    {"0", "1", "2", "3", "4", "5", "6", "7", "8", "9",
     "a", "b", "c", "d", "e", "f", "A", "B", "C", "D", "E", "F"}

IsSimpleUuid(s) == Len(s) = 32 /\ \A i \in 1..32 : s[i] \in HexChars

IsHyphenatedUuid(s) ==
    /\ Len(s) = 36
    /\ \A i \in 1..36 :
          IF i \in {9, 14, 19, 24} THEN s[i] = "-" ELSE s[i] \in HexChars

\* uuid::Uuid::parse_str(id).is_ok(): the simple, hyphenated, braced and URN forms
IsUuid(s) ==
    \/ IsSimpleUuid(s)
    \/ IsHyphenatedUuid(s)
    \/ /\ Len(s) = 38
       /\ s[1] = "{"
       /\ s[38] = "}"
       /\ IsHyphenatedUuid(SubSeq(s, 2, 37))
    \/ /\ Len(s) = 45
       /\ SubSeq(s, 1, 9) = <<"u", "r", "n", ":", "u", "u", "i", "d", ":">>
       /\ IsHyphenatedUuid(SubSeq(s, 10, 45))

\* format!("{} chars", n)
CharsText(n) == to_string(n) \o <<" ", "c", "h", "a", "r", "s">>

(***************************************************************************)
(* Command validation utilities (commands.rs 61-119).  () is <<>>.         *)
(***************************************************************************)
validate_manuscript_id(id) ==
    IF id = <<>>
    THEN Err(validation_field("Manuscript ID cannot be empty", "manuscript_id", id))
    ELSE IF ~IsUuid(id)
    THEN Err(validation_field("Invalid manuscript ID format", "manuscript_id", id))
    ELSE Ok(<<>>)

validate_scene_id(id) ==
    IF id = <<>>
    THEN Err(validation_field("Scene ID cannot be empty", "scene_id", id))
    ELSE IF ~IsUuid(id)
    THEN Err(validation_field("Invalid scene ID format", "scene_id", id))
    ELSE Ok(<<>>)

\* the length limit of a title, in bytes (title.len() > 255 is rejected)
MaxTitleLen == 255

TitleLimitOffByOne(n) == n >= MaxTitleLen

TitleTooLong(n) == n > MaxTitleLen

validate_manuscript_title(title) ==
    IF is_empty(title)
    THEN Err(validation_field("Title cannot be empty", "title", Expand(title)))
    ELSE IF TitleTooLong(StrLen(title))
    THEN Err(validation_field("Title cannot be longer than 255 characters",
                              "title", CharsText(StrLen(title))))
    ELSE Ok(<<>>)

(***************************************************************************)
(* The *_safe command handlers (commands.rs 143-337): their arguments and   *)
(* the statements their closures pass to execute_with_cache.  An           *)
(* Option<&str> is [some, v].                                              *)
(***************************************************************************)
\* text.len() > 1_000_000 and text.len() > 500_000 are rejected
MaxTextLen == 1000000
MaxSceneTextLen == 500000

\* chrono::Utc::now().timestamp_millis() as the handlers read it
CmdClockMillis == 0

Some(v) == [some |-> TRUE, v |-> v]

None == [some |-> FALSE, v |-> <<>>]

\* the id of db_tests.rs, and ids uuid::Uuid::new_v4() returns
SampleUuid ==
    <<"5", "5", "0", "e", "8", "4", "0", "0", "-", "e", "2", "9", "b", "-",
            "4", "1", "d", "4", "-", "a", "7", "1", "6", "-", "4", "4", "6", "6",
            "5", "5", "4", "4", "0", "0", "0", "0">>

NewManuscriptId ==
    <<"6", "b", "a", "7", "b", "8", "1", "0", "-", "9", "d", "a", "d", "-",
            "4", "1", "d", "1", "-", "8", "0", "b", "4", "-", "0", "0", "c", "0",
            "4", "f", "d", "4", "3", "0", "c", "8">>

NewSceneId ==
    <<"6", "b", "a", "7", "b", "8", "1", "1", "-", "9", "d", "a", "d", "-",
            "4", "1", "d", "1", "-", "8", "0", "b", "4", "-", "0", "0", "c", "0",
            "4", "f", "d", "4", "3", "0", "c", "8">>

NotAUuid == <<"n", "o", "t", "-", "a", "-", "u", "u", "i", "d">>

ShortText == <<[ch |-> "a", n |-> 1], [ch |-> " ", n |-> 1], [ch |-> "b", n |-> 2]>>

CmdArgs(name, id, title, text) == [name |-> name, id |-> id, title |-> title, text |-> text]

\* the invocations tried, valid and not
CmdInputs ==
    << CmdArgs("create_manuscript_safe", <<>>, Some(RunOf("T", 1)), Some(ShortText)),
       CmdArgs("create_manuscript_safe", <<>>, Some(<<>>), Some(ShortText)),
       CmdArgs("create_manuscript_safe", <<>>, Some(RunOf("a", MaxTitleLen)), Some(<<>>)),
       CmdArgs("create_manuscript_safe", <<>>, Some(RunOf("a", MaxTitleLen + 1)), Some(ShortText)),
       CmdArgs("create_manuscript_safe", <<>>, Some(RunOf("T", 1)), Some(RunOf("a", MaxTextLen + 1))),
       CmdArgs("create_manuscript_safe", <<>>, Some(<<>>), Some(RunOf("a", MaxTextLen + 1))),
       CmdArgs("get_scenes_safe", SampleUuid, None, None),
       CmdArgs("get_scenes_safe", NotAUuid, None, None),
       CmdArgs("get_scenes_safe", <<>>, None, None),
       CmdArgs("update_scene_safe", SampleUuid, None, Some(ShortText)),
       CmdArgs("update_scene_safe", SampleUuid, Some(RunOf("T", 1)), Some(ShortText)),
       CmdArgs("update_scene_safe", SampleUuid, Some(RunOf("a", MaxTitleLen + 1)), None),
       CmdArgs("update_scene_safe", SampleUuid, None, None),
       CmdArgs("update_scene_safe", NotAUuid, None, Some(ShortText)),
       CmdArgs("update_scene_safe", SampleUuid, None, Some(RunOf("a", MaxSceneTextLen + 1))),
       CmdArgs("delete_manuscript_safe", SampleUuid, None, None),
       CmdArgs("delete_manuscript_safe", NotAUuid, None, None),
       CmdArgs("delete_manuscript_safe", <<>>, None, None) >>

CmdIds == 1..Len(CmdInputs)

InsertManuscriptSql ==
    [text |-> "INSERT INTO manuscripts (id, title, created_at, updated_at, total_word_count) VALUES (?, ?, ?, ?, ?)",
     sql |-> <<"I", "N", "S", "E", "R", "T", " ", "I", "N", "T", "O", " ", "m", "a",
            "n", "u", "s", "c", "r", "i", "p", "t", "s", " ", "(", "i", "d", ",",
            " ", "t", "i", "t", "l", "e", ",", " ", "c", "r", "e", "a", "t", "e",
            "d", "_", "a", "t", ",", " ", "u", "p", "d", "a", "t", "e", "d", "_",
            "a", "t", ",", " ", "t", "o", "t", "a", "l", "_", "w", "o", "r", "d",
            "_", "c", "o", "u", "n", "t", ")", " ", "V", "A", "L", "U", "E", "S",
            " ", "(", "?", ",", " ", "?", ",", " ", "?", ",", " ", "?", ",", " ",
            "?", ")">>]

InsertSceneSql ==
    [text |-> "INSERT INTO scenes (id, manuscript_id, index_in_manuscript, title, raw_text, word_count, created_at, updated_at) VALUES (?, ?, ?, ?, ?, ?, ?, ?)",
     sql |-> <<"I", "N", "S", "E", "R", "T", " ", "I", "N", "T", "O", " ", "s", "c",
            "e", "n", "e", "s", " ", "(", "i", "d", ",", " ", "m", "a", "n", "u",
            "s", "c", "r", "i", "p", "t", "_", "i", "d", ",", " ", "i", "n", "d",
            "e", "x", "_", "i", "n", "_", "m", "a", "n", "u", "s", "c", "r", "i",
            "p", "t", ",", " ", "t", "i", "t", "l", "e", ",", " ", "r", "a", "w",
            "_", "t", "e", "x", "t", ",", " ", "w", "o", "r", "d", "_", "c", "o",
            "u", "n", "t", ",", " ", "c", "r", "e", "a", "t", "e", "d", "_", "a",
            "t", ",", " ", "u", "p", "d", "a", "t", "e", "d", "_", "a", "t", ")",
            " ", "V", "A", "L", "U", "E", "S", " ", "(", "?", ",", " ", "?", ",",
            " ", "?", ",", " ", "?", ",", " ", "?", ",", " ", "?", ",", " ", "?",
            ",", " ", "?", ")">>]

SelectScenesSql ==
    [text |-> "SELECT id, manuscript_id, title, raw_text, word_count, index_in_manuscript, created_at, updated_at FROM scenes WHERE manuscript_id = ? ORDER BY index_in_manuscript",
     sql |-> <<"S", "E", "L", "E", "C", "T", " ", "i", "d", ",", " ", "m", "a", "n",
            "u", "s", "c", "r", "i", "p", "t", "_", "i", "d", ",", " ", "t", "i",
            "t", "l", "e", ",", " ", "r", "a", "w", "_", "t", "e", "x", "t", ",",
            " ", "w", "o", "r", "d", "_", "c", "o", "u", "n", "t", ",", " ", "i",
            "n", "d", "e", "x", "_", "i", "n", "_", "m", "a", "n", "u", "s", "c",
            "r", "i", "p", "t", ",", " ", "c", "r", "e", "a", "t", "e", "d", "_",
            "a", "t", ",", " ", "u", "p", "d", "a", "t", "e", "d", "_", "a", "t",
            " ", "F", "R", "O", "M", " ", "s", "c", "e", "n", "e", "s", " ", "W",
            "H", "E", "R", "E", " ", "m", "a", "n", "u", "s", "c", "r", "i", "p",
            "t", "_", "i", "d", " ", "=", " ", "?", " ", "O", "R", "D", "E", "R",
            " ", "B", "Y", " ", "i", "n", "d", "e", "x", "_", "i", "n", "_", "m",
            "a", "n", "u", "s", "c", "r", "i", "p", "t">>]

UpdateTextSql ==
    [text |-> "UPDATE scenes SET raw_text = ?, word_count = ?, updated_at = ? WHERE id = ?",
     sql |-> <<"U", "P", "D", "A", "T", "E", " ", "s", "c", "e", "n", "e", "s", " ",
            "S", "E", "T", " ", "r", "a", "w", "_", "t", "e", "x", "t", " ", "=",
            " ", "?", ",", " ", "w", "o", "r", "d", "_", "c", "o", "u", "n", "t",
            " ", "=", " ", "?", ",", " ", "u", "p", "d", "a", "t", "e", "d", "_",
            "a", "t", " ", "=", " ", "?", " ", "W", "H", "E", "R", "E", " ", "i",
            "d", " ", "=", " ", "?">>]

UpdateTitleSql ==
    [text |-> "UPDATE scenes SET title = ?, updated_at = ? WHERE id = ?",
     sql |-> <<"U", "P", "D", "A", "T", "E", " ", "s", "c", "e", "n", "e", "s", " ",
            "S", "E", "T", " ", "t", "i", "t", "l", "e", " ", "=", " ", "?", ",",
            " ", "u", "p", "d", "a", "t", "e", "d", "_", "a", "t", " ", "=", " ",
            "?", " ", "W", "H", "E", "R", "E", " ", "i", "d", " ", "=", " ", "?">>]

DeleteScenesSql ==
    [text |-> "DELETE FROM scenes WHERE manuscript_id = ?",
     sql |-> <<"D", "E", "L", "E", "T", "E", " ", "F", "R", "O", "M", " ", "s", "c",
            "e", "n", "e", "s", " ", "W", "H", "E", "R", "E", " ", "m", "a", "n",
            "u", "s", "c", "r", "i", "p", "t", "_", "i", "d", " ", "=", " ", "?">>]

DeleteManuscriptSql ==
    [text |-> "DELETE FROM manuscripts WHERE id = ?",
     sql |-> <<"D", "E", "L", "E", "T", "E", " ", "F", "R", "O", "M", " ", "m", "a",
            "n", "u", "s", "c", "r", "i", "p", "t", "s", " ", "W", "H", "E", "R",
            "E", " ", "i", "d", " ", "=", " ", "?">>]

Stmt(s, params) == [text |-> s.text, sql |-> s.sql, params |-> params]

\* the calls of execute_with_cache in the handler's closure, in program order
Statements(a) ==
    LET ms == to_string(CmdClockMillis)
        wc == to_string(WordCount(Expand(a.text.v)))
    IN  CASE a.name = "create_manuscript_safe" ->
                << Stmt(InsertManuscriptSql,
                        <<NewManuscriptId, Expand(a.title.v), ms, ms, wc>>),
                   Stmt(InsertSceneSql,
                        <<NewSceneId, NewManuscriptId, <<"0">>,
                          <<"O", "p", "e", "n", "i", "n", "g", " ", "S", "c", "e", "n", "e">>,
                          Expand(a.text.v), wc, ms, ms>>) >>
          [] a.name = "get_scenes_safe" ->
                << Stmt(SelectScenesSql, <<a.id>>) >>
          [] a.name = "update_scene_safe" ->
                (IF a.text.some
                 THEN << Stmt(UpdateTextSql, <<Expand(a.text.v), wc, ms, a.id>>) >>
                 ELSE << >>)
                \o (IF a.title.some
                    THEN << Stmt(UpdateTitleSql, <<Expand(a.title.v), ms, a.id>>) >>
                    ELSE << >>)
          [] a.name = "delete_manuscript_safe" ->
                << Stmt(DeleteScenesSql, <<a.id>>),
                   Stmt(DeleteManuscriptSql, <<a.id>>) >>

\* longest text written out character by character
MaxWritten == 1000

\* the statements are tabulated for the invocations whose text is short
\* enough to be written out character by character
Tabulated(a) == StrLen(a.text.v) <= MaxWritten

StatementsOf == [i \in CmdIds |-> IF Tabulated(CmdInputs[i])
                                 THEN Statements(CmdInputs[i]) ELSE << >>]

RECURSIVE HandlerRequestsUpTo(_)
HandlerRequestsUpTo(i) ==
    IF i = 0 THEN << >> ELSE HandlerRequestsUpTo(i - 1) \o StatementsOf[i]

HandlerRequests == HandlerRequestsUpTo(Len(CmdInputs))

(***************************************************************************)
(* The statements the tasks issue: sql text and positional parameters.     *)
(* text is sql as one string, for the query field of an error.             *)
(***************************************************************************)
\* the statements of the calls made directly on the service
FreeRequests ==
    <<
      [text |-> "SELECT * FROM scenes",
       sql |-> <<"S", "E", "L", "E", "C", "T", " ", "*", " ", "F", "R", "O",
                 "M", " ", "s", "c", "e", "n", "e", "s">>,
       params |-> <<>>],
      [text |-> "  select id from scenes where id = ?",
       sql |-> <<" ", " ", "s", "e", "l", "e", "c", "t", " ", "i", "d", " ",
                 "f", "r", "o", "m", " ", "s", "c", "e", "n", "e", "s", " ",
                 "w", "h", "e", "r", "e", " ", "i", "d", " ", "=", " ", "?">>,
       params |-> <<<<"s", "1">>>>],
      [text |-> "DELETE FROM scenes WHERE manuscript_id = ?",
       sql |-> <<"D", "E", "L", "E", "T", "E", " ", "F", "R", "O", "M", " ",
                 "s", "c", "e", "n", "e", "s", " ", "W", "H", "E", "R", "E",
                 " ", "m", "a", "n", "u", "s", "c", "r", "i", "p", "t", "_",
                 "i", "d", " ", "=", " ", "?">>,
       params |-> <<<<"m", "1">>>>]
    >>

Requests == FreeRequests \o HandlerRequests

ReqIds == 1..Len(Requests)

\* the statements a caller of the service picks from
CallIds == 1..Len(FreeRequests)

\* the statements before those of the i-th invocation
StmtBase == [i \in CmdIds |-> Len(FreeRequests) + Len(HandlerRequestsUpTo(i - 1))]

\* sql.trim().to_uppercase().starts_with("SELECT")   (db.rs 155, 190);
\* ReqIsSelect tabulates it over the statements issued
IsSelectAlways(sql) == TRUE

IsSelect(sql) ==
    starts_with(to_uppercase(trim(sql)), <<"S", "E", "L", "E", "C", "T">>)

\* format!("{}:{:?}", sql, params)   (db.rs 152)
CacheKey(sql, params) == sql \o <<":">> \o DebugList(params)

ReqIsSelect == [r \in ReqIds |-> IsSelect(Requests[r].sql)]

ReqKey == [r \in ReqIds |-> CacheKey(Requests[r].sql, Requests[r].params)]

(***************************************************************************)
(* The store (external collaborator), as the handle's methods see it.      *)
(*   version       bumped by every write statement the store applies       *)
(*   opened        handles the plugin has built (initialize succeeded)     *)
(*   openAttempts  calls of initialize                                     *)
(*   pragmaCount   PRAGMA statements executed, counted up to one more than *)
(*                 the four of a single configuration sequence             *)
(*   applied       per live handle, the session settings in force: the     *)
(*                 PRAGMAs applied to it (a handle dropped by a failed     *)
(*                 get_connection is closed)                               *)
(***************************************************************************)
\* the four session statements of get_connection and their error messages
Pragmas ==
    << [sql |-> "PRAGMA journal_mode=WAL", fail |-> "Failed to set WAL mode"],
       [sql |-> "PRAGMA synchronous=NORMAL", fail |-> "Failed to set synchronous mode"],
       [sql |-> "PRAGMA cache_size=10000", fail |-> "Failed to set cache size"],
       [sql |-> "PRAGMA foreign_keys=ON", fail |-> "Failed to enable foreign keys"] >>

\* what db.execute(sql, params) returns when it succeeds: the rows of a read
\* depend on the statement and on the data; a write reports one row affected
StoreResult(r, version) == IF ReqIsSelect[r] THEN 10 * version + r ELSE 1

EmptyCache == [k \in {} |-> <<>>]

\* a map that keeps the entry it already has
CacheInsertKeepsFirst(cache, key, serialized) ==
    [k \in DOMAIN cache \cup {key} |->
        IF k \in DOMAIN cache THEN cache[k] ELSE serialized]

\* HashMap::insert
CacheInsert(cache, key, serialized) ==
    [k \in DOMAIN cache \cup {key} |-> IF k = key THEN serialized ELSE cache[k]]

TaskInit ==
    [pc |-> "idle", req |-> 0,
     attempt |-> 0, delay_ms |-> 0, last_error |-> NoError,
     iattempt |-> 0, idelay |-> 0, db |-> 0, pragma |-> 0,
     value |-> NoneVal, result |-> NoResult]

HistInit ==
    [ insertedAt   |-> [k \in {} |-> 0],          \* when each entry was inserted
      quiet        |-> [c \in Tasks |-> FALSE],   \* since c's call returned the cache was
                                                  \* not cleared, nor c's key re-inserted
      doneAt       |-> [c \in Tasks |-> 0],       \* when c's call returned
      expect       |-> [c \in Tasks |-> NoneVal], \* the previous call's value, if this call
                                                  \* repeats that read, undisturbed, in the TTL
      hit          |-> [c \in Tasks |-> FALSE],   \* this call returned from the cache
      hitAge       |-> [c \in Tasks |-> 0],       \* age of the entry it returned
      reads        |-> [c \in Tasks |-> 0],       \* cache lookups of this call
      conns        |-> [c \in Tasks |-> 0],       \* get_connection calls of this call
      execs        |-> [c \in Tasks |-> 0],       \* db.execute of the statement
      okExecs      |-> [c \in Tasks |-> 0],       \* ... that succeeded
      pragmaFailed |-> [c \in Tasks |-> FALSE],   \* a PRAGMA failed in this get_connection
      connErr      |-> [c \in Tasks |-> FALSE],   \* the result is get_connection's error
      initFailed   |-> FALSE,                     \* some get_connection returned Err
      logLost      |-> FALSE ]                    \* some append to the log file failed

InitService(callers, calls, faults, ticks) ==
    /\ pool = 0
    /\ poolLock = 0
    /\ query_cache = EmptyCache
    /\ errorLog = <<>>
    /\ task = [c \in Tasks |-> TaskInit]
    /\ store = [version |-> 0, opened |-> 0, openAttempts |-> 0, pragmaCount |-> 0,
                applied |-> [h \in {} |-> {}]]
    /\ now = 0
    /\ env = [callers |-> callers, calls |-> calls, faults |-> faults,
              ticks |-> ticks]
    /\ hist = HistInit

(***************************************************************************)
(* DatabaseService::get_connection (db.rs 86-149).                         *)
(* task[c].pc inside it: "lockPool" at self.pool.lock().await, "open" at   *)
(* initialize(&app).await, "openSleep" / "pragmaSleep" at the retry        *)
(* loop's sleep, "pragma" at db.execute(PRAGMA ...).await.  The guard      *)
(* `pool` lives until the function returns, so the mutex is held over      *)
(* all of them.                                                            *)
(***************************************************************************)
\* tokio Mutex: lock().await completes only while no guard is alive
PoolLockIgnored == TRUE

PoolLockFree == poolLock = 0

\* a facade that returns the first error of its operation
AfterOpFailureGivesUp(t, e) ==
    [t EXCEPT !.pc = "done", !.result = Err(e), !.last_error = e, !.db = 0,
              !.pragma = 0, !.iattempt = 0, !.idelay = 0]

\* the facade's retry loop after its operation returned Err(e)  (error.rs 453-462)
AfterOpFailure(t, e) ==
    LET u == [t EXCEPT !.last_error = e, !.db = 0, !.pragma = 0,
                       !.iattempt = 0, !.idelay = 0]
    IN  IF RetryAgain(t.attempt, RetryConfigDefault, e)
        THEN [u EXCEPT !.pc = "sleep"]
        ELSE [u EXCEPT !.pc = "done", !.result = Err(e)]

\* history: c's call has returned
Returned(h, c) == [h EXCEPT !.quiet[c] = TRUE, !.doneAt[c] = now]

\* history: get_connection returned Err(e) to the facade's operation
ConnFailed(h, c, t) ==
    IF t.pc = "done"
    THEN Returned([h EXCEPT !.connErr[c] = TRUE, !.initFailed = TRUE], c)
    ELSE [h EXCEPT !.initFailed = TRUE]

\* a get_connection whose guard outlives the call
LockPoolKept(c) ==
    /\ task[c].pc = "lockPool"
    /\ PoolLockFree
    /\ IF pool # 0
       THEN task' = [task EXCEPT ![c].pc = "exec", ![c].db = pool]
       ELSE task' = [task EXCEPT ![c].pc = "open", ![c].iattempt = 1,
                       ![c].idelay = RetryConfigDefault.initial_delay_ms]
    /\ poolLock' = c
    /\ hist' = [hist EXCEPT !.conns[c] = @ + 1, !.pragmaFailed[c] = FALSE]
    /\ UNCHANGED <<rw, cmd, fn, pool, query_cache, errorLog, store, now, env>>

\* a get_connection that initializes whatever the pool holds
LockPoolReopens(c) ==
    /\ task[c].pc = "lockPool"
    /\ PoolLockFree
    /\ task' = [task EXCEPT ![c].pc = "open", ![c].iattempt = 1,
                   ![c].idelay = RetryConfigDefault.initial_delay_ms]
    /\ poolLock' = c
    /\ hist' = [hist EXCEPT !.conns[c] = @ + 1, !.pragmaFailed[c] = FALSE]
    /\ UNCHANGED <<rw, cmd, fn, pool, query_cache, errorLog, store, now, env>>

\* let mut pool = self.pool.lock().await; if pool.is_none() {...}; Ok(pool.clone())
LockPool(c) ==
    /\ task[c].pc = "lockPool"
    /\ PoolLockFree
    /\ IF pool # 0
       THEN /\ task' = [task EXCEPT ![c].pc = "exec", ![c].db = pool]
            /\ UNCHANGED poolLock
       ELSE /\ task' = [task EXCEPT ![c].pc = "open", ![c].iattempt = 1,
                          ![c].idelay = RetryConfigDefault.initial_delay_ms]
            /\ poolLock' = c
    /\ hist' = [hist EXCEPT !.conns[c] = @ + 1, !.pragmaFailed[c] = FALSE]
    /\ UNCHANGED <<rw, cmd, fn, pool, query_cache, errorLog, store, now, env>>

\* Builder::default().add_migrations(..).build().initialize(&app).await succeeds:
\* the first retry loop returns db, the second one starts
OpenOk(c) ==
    /\ task[c].pc = "open"
    /\ LET h == store.opened + 1
       IN  /\ store' = [store EXCEPT !.opened = h, !.openAttempts = @ + 1,
                          !.applied = [x \in DOMAIN @ \cup {h} |->
                                         IF x = h THEN {} ELSE @[x]]]
           /\ task' = [task EXCEPT ![c].pc = "pragma", ![c].db = h,
                         ![c].pragma = 1, ![c].iattempt = 1,
                         ![c].idelay = RetryConfigDefault.initial_delay_ms]
    /\ UNCHANGED <<rw, cmd, fn, pool, poolLock, query_cache, errorLog, now, env, hist>>

\* initialize fails: AppError::database("Failed to initialize database: ..."),
\* retried by the first loop or returned through `?`
OpenFail(c) ==
    /\ task[c].pc = "open"
    /\ env.faults > 0
    /\ env' = [env EXCEPT !.faults = @ - 1]
    /\ store' = [store EXCEPT !.openAttempts = @ + 1]
    /\ LET e == database("Failed to initialize database")
       IN  IF RetryAgain(task[c].iattempt, RetryConfigDefault, e)
           THEN /\ task' = [task EXCEPT ![c].pc = "openSleep"]
                /\ UNCHANGED <<poolLock, hist>>
           ELSE /\ task' = [task EXCEPT ![c] = AfterOpFailure(task[c], e)]
                /\ poolLock' = 0
                /\ hist' = ConnFailed(hist, c, task'[c])
    /\ UNCHANGED <<rw, cmd, fn, pool, query_cache, errorLog, now>>

\* tokio::time::sleep inside the first loop, then the next attempt
OpenSleep(c) ==
    /\ task[c].pc = "openSleep"
    /\ task' = [task EXCEPT ![c].pc = "open", ![c].iattempt = @ + 1,
                  ![c].idelay = NextDelay(@, RetryConfigDefault)]
    /\ UNCHANGED <<rw, cmd, fn, pool, poolLock, query_cache, errorLog, store, now, env, hist>>

\* a closure that leaves the second statement out
NextPragmaSkipping(p) == IF p = 1 THEN p + 2 ELSE p + 1

\* the statement after the p-th in the closure of the second loop
NextPragma(p) == p + 1

\* the closure has run its last statement and returns Ok::<(), AppError>(())
ClosureDoneEarly(p) == p >= Len(Pragmas) - 1

ClosureDone(p) == p = Len(Pragmas)

\* a get_connection whose guard outlives its return
PragmaOkKeepsLock(c) ==
    /\ task[c].pc = "pragma"
    /\ LET p == task[c].pragma
           h == task[c].db
       IN  /\ store' = [store EXCEPT !.applied[h] = @ \cup {p},
                                      !.pragmaCount = Min(@ + 1, Len(Pragmas) + 1)]
           /\ IF ClosureDone(p)
              THEN /\ task' = [task EXCEPT ![c].pc = "exec"]
                   /\ pool' = h
                   /\ poolLock' = c
              ELSE /\ task' = [task EXCEPT ![c].pragma = NextPragma(p)]
                   /\ UNCHANGED <<pool, poolLock>>
    /\ UNCHANGED <<rw, cmd, fn, query_cache, errorLog, now, env, hist>>

\* one db.execute(PRAGMA ..) of the second loop's closure succeeds; after the
\* fourth the loop returns Ok(()), *pool = Some(db) and the guard is dropped
PragmaOk(c) ==
    /\ task[c].pc = "pragma"
    /\ LET p == task[c].pragma
           h == task[c].db
       IN  /\ store' = [store EXCEPT !.applied[h] = @ \cup {p},
                                      !.pragmaCount = Min(@ + 1, Len(Pragmas) + 1)]
           /\ IF ClosureDone(p)
              THEN /\ task' = [task EXCEPT ![c].pc = "exec"]
                   /\ pool' = h
                   /\ poolLock' = 0
              ELSE /\ task' = [task EXCEPT ![c].pragma = NextPragma(p)]
                   /\ UNCHANGED <<pool, poolLock>>
    /\ UNCHANGED <<rw, cmd, fn, query_cache, errorLog, now, env, hist>>

\* a PRAGMA fails: AppError::database_with_query(..), the closure returns through
\* `?`; the second loop retries the whole closure or get_connection returns Err
PragmaFail(c) ==
    /\ task[c].pc = "pragma"
    /\ env.faults > 0
    /\ env' = [env EXCEPT !.faults = @ - 1]
    /\ LET p == task[c].pragma
           h == task[c].db
           e == database_with_query(Pragmas[p].fail, Pragmas[p].sql)
       IN  IF RetryAgain(task[c].iattempt, RetryConfigDefault, e)
           THEN /\ task' = [task EXCEPT ![c].pc = "pragmaSleep"]
                /\ hist' = [hist EXCEPT !.pragmaFailed[c] = TRUE]
                /\ UNCHANGED <<poolLock, store>>
           ELSE /\ task' = [task EXCEPT ![c] = AfterOpFailure(task[c], e)]
                /\ poolLock' = 0
                /\ store' = [store EXCEPT !.applied =
                                [x \in DOMAIN @ \ {h} |-> @[x]]]
                /\ hist' = ConnFailed([hist EXCEPT !.pragmaFailed[c] = TRUE],
                                      c, task'[c])
    /\ UNCHANGED <<rw, cmd, fn, pool, query_cache, errorLog, now>>

\* tokio::time::sleep inside the second loop, then the closure runs again
PragmaSleep(c) ==
    /\ task[c].pc = "pragmaSleep"
    /\ task' = [task EXCEPT ![c].pc = "pragma", ![c].pragma = 1,
                  ![c].iattempt = @ + 1,
                  ![c].idelay = NextDelay(@, RetryConfigDefault)]
    /\ UNCHANGED <<rw, cmd, fn, pool, poolLock, query_cache, errorLog, store, now, env, hist>>

(***************************************************************************)
(* DatabaseService::execute_with_cache (db.rs 151-198).                    *)
(* task[c].pc: "idle" before the first call, then, inside the facade's     *)
(* retry loop, get_connection's positions, "exec" at                       *)
(* db.execute(&sql, &params).await and "sleep" at the loop's sleep;        *)
(* "populate" at the second query_cache.lock().await; "done" once the      *)
(* call has returned task[c].result.                                       *)
(* The cache mutex is taken and dropped inside one step: no await lies     *)
(* between query_cache.lock().await and the drop of its guard.             *)
(***************************************************************************)
\* cache freshness window of the specification, in seconds
TTL == 300

\* seconds per clock tick
TickSecs == 150

\* history at the start of a call
CallStarts(h, c, r) ==
    LET repeats == /\ task[c].pc = "done"
                   /\ task[c].req = r
                   /\ ReqIsSelect[r]
                   /\ task[c].result.ok
                   /\ h.quiet[c]
                   /\ now - h.doneAt[c] < TTL
    IN  [h EXCEPT !.expect[c] = IF repeats THEN task[c].result.value ELSE NoneVal,
                  !.hit[c] = FALSE, !.hitAge[c] = 0, !.reads[c] = 0,
                  !.conns[c] = 0, !.execs[c] = 0, !.okExecs[c] = 0,
                  !.pragmaFailed[c] = FALSE, !.connErr[c] = FALSE]

\* cache.get(&cache_key): the entry, whatever its age
CacheGetNever(key) == FALSE

CacheGet(key) == key \in DOMAIN query_cache

\* lines 152-162: the key, the lookup for a SELECT and the return on a hit;
\* otherwise the retry loop is entered (attempt 1 of RetryConfig::default())
EnterCall(c, r) ==
    /\ task[c].pc \in {"idle", "done"}
    /\ LET key == ReqKey[r]
           h0 == CallStarts(hist, c, r)
       IN  IF ReqIsSelect[r]
           THEN IF CacheGet(key)
                THEN /\ task' = [task EXCEPT ![c] =
                                   [TaskInit EXCEPT !.pc = "done", !.req = r,
                                      !.result = from_str(query_cache[key])]]
                     /\ hist' = Returned([h0 EXCEPT !.reads[c] = 1, !.hit[c] = TRUE,
                                            !.hitAge[c] = now - hist.insertedAt[key]], c)
                ELSE /\ task' = [task EXCEPT ![c] =
                                   [TaskInit EXCEPT !.pc = "lockPool", !.req = r,
                                      !.attempt = 1,
                                      !.delay_ms = RetryConfigDefault.initial_delay_ms]]
                     /\ hist' = [h0 EXCEPT !.reads[c] = 1]
           ELSE /\ task' = [task EXCEPT ![c] =
                              [TaskInit EXCEPT !.pc = "lockPool", !.req = r,
                                 !.attempt = 1,
                                 !.delay_ms = RetryConfigDefault.initial_delay_ms]]
                /\ hist' = h0
    /\ UNCHANGED <<pool, poolLock, query_cache, errorLog, store, now>>

\* a task of the environment calls execute_with_cache(sql, params)
Call(c, r) ==
    /\ c \in env.callers
    /\ env.calls > 0
    /\ env' = [env EXCEPT !.calls = @ - 1]
    /\ EnterCall(c, r)
    /\ UNCHANGED <<rw, cmd, fn>>

\* db.execute(&sql, &params) succeeds: the loop returns Ok(result); a statement
\* that is no SELECT returns it to the caller (lines 190, 197)
ExecOk(c) ==
    /\ task[c].pc = "exec"
    /\ LET r == task[c].req
           sel == ReqIsSelect[r]
           ver == IF sel THEN store.version ELSE store.version + 1
           v == StoreResult(r, ver)
           h1 == [hist EXCEPT !.execs[c] = @ + 1, !.okExecs[c] = @ + 1]
       IN  /\ store' = [store EXCEPT !.version = ver]
           /\ IF sel
              THEN /\ task' = [task EXCEPT ![c].pc = "populate", ![c].value = v,
                                 ![c].db = 0, ![c].pragma = 0,
                                 ![c].iattempt = 0, ![c].idelay = 0]
                   /\ hist' = h1
              ELSE /\ task' = [task EXCEPT ![c].pc = "done", ![c].value = v,
                                 ![c].result = Ok(v),
                                 ![c].db = 0, ![c].pragma = 0,
                                 ![c].iattempt = 0, ![c].idelay = 0]
                   /\ hist' = Returned(h1, c)
    /\ UNCHANGED <<rw, cmd, fn, pool, poolLock, query_cache, errorLog, now, env>>

\* ErrorLogger::log_error (error.rs 351-369): one line appended; an io error of
\* the append is only reported on stderr (db.rs 180-182)
log_error(log, error, context, written) ==
    IF written THEN Append(log, [error |-> error, context |-> context]) ELSE log

\* db.execute fails: the map_err closure builds the error, logs it and the
\* operation returns it to the retry loop (lines 173-185)
ExecFail(c) ==
    /\ task[c].pc = "exec"
    /\ env.faults > 0
    /\ LET e == database_with_query("Query execution failed",
                                    Requests[task[c].req].text)
       IN  /\ \E written \in {w \in BOOLEAN : w \/ env.faults > 1} :
                /\ errorLog' = log_error(errorLog, e, "Database query execution",
                                         written)
                /\ env' = [env EXCEPT !.faults = IF written THEN @ - 1 ELSE @ - 2]
           /\ task' = [task EXCEPT ![c] = AfterOpFailure(task[c], e)]
           /\ hist' = LET h1 == [hist EXCEPT !.execs[c] = @ + 1,
                                                !.logLost = @ \/ (errorLog' = errorLog)]
                      IN  IF task'[c].pc = "done" THEN Returned(h1, c) ELSE h1
    /\ UNCHANGED <<rw, cmd, fn, pool, poolLock, query_cache, store, now>>

\* tokio::time::sleep of the facade's loop, then the next attempt
Sleep(c) ==
    /\ task[c].pc = "sleep"
    /\ task' = [task EXCEPT ![c].pc = "lockPool", ![c].attempt = @ + 1,
                  ![c].delay_ms = NextDelay(@, RetryConfigDefault)]
    /\ UNCHANGED <<rw, cmd, fn, pool, poolLock, query_cache, errorLog, store, now, env, hist>>

\* history: an entry for key was inserted by c
Inserted(h, c, key) ==
    [h EXCEPT !.insertedAt = [k \in DOMAIN @ \cup {key} |->
                                IF k = key THEN now ELSE @[k]],
              !.quiet = [d \in Tasks |->
                           IF d # c /\ task[d].req # 0 /\ ReqKey[task[d].req] = key
                           THEN FALSE ELSE @[d]]]

\* an insert under a key that leaves the parameters out
PopulateOkBareKey(c) ==
    /\ task[c].pc = "populate"
    /\ LET key == CacheKey(Requests[task[c].req].sql, <<>>)
       IN  /\ query_cache' = CacheInsert(query_cache, key, to_string(task[c].value))
           /\ hist' = Returned(Inserted(hist, c, key), c)
    /\ task' = [task EXCEPT ![c].pc = "done", ![c].result = Ok(task[c].value)]
    /\ UNCHANGED <<rw, cmd, fn, pool, poolLock, errorLog, store, now, env>>

\* lines 190-197 for a SELECT, serde_json::to_string(&result) being Ok
PopulateOk(c) ==
    /\ task[c].pc = "populate"
    /\ LET key == ReqKey[task[c].req]
       IN  /\ query_cache' = CacheInsert(query_cache, key, to_string(task[c].value))
           /\ hist' = Returned(Inserted(hist, c, key), c)
    /\ task' = [task EXCEPT ![c].pc = "done", ![c].result = Ok(task[c].value)]
    /\ UNCHANGED <<rw, cmd, fn, pool, poolLock, errorLog, store, now, env>>

\* line 193: serde_json::to_string returns Err, mapped to AppError::internal and
\* returned through `?`
PopulateFail(c) ==
    /\ task[c].pc = "populate"
    /\ env.faults > 0
    /\ env' = [env EXCEPT !.faults = @ - 1]
    /\ task' = [task EXCEPT ![c].pc = "done",
                  ![c].result = Err(internal("Failed to serialize result for cache"))]
    /\ hist' = Returned(hist, c)
    /\ UNCHANGED <<rw, cmd, fn, pool, poolLock, query_cache, errorLog, store, now>>

\* DatabaseService::clear_cache (db.rs 200-203)
clear_cache ==
    /\ query_cache # EmptyCache
    /\ query_cache' = EmptyCache
    /\ hist' = [hist EXCEPT !.insertedAt = [k \in {} |-> 0],
                            !.quiet = [c \in Tasks |-> FALSE]]
    /\ UNCHANGED <<rw, cmd, fn, pool, poolLock, errorLog, task, store, now, env>>

\* time passes between two calls (the code never reads the clock, and the
\* properties only measure the time from a call's return to the next call)
Tick ==
    /\ env.ticks > 0
    /\ \A c \in Tasks : task[c].pc \in {"idle", "done"}
    /\ env' = [env EXCEPT !.ticks = @ - 1]
    /\ now' = now + TickSecs
    /\ UNCHANGED <<rw, cmd, fn, pool, poolLock, query_cache, errorLog, task, store, hist>>

\* the steps of execute_with_cache and of the get_connection it calls
NextCalls ==
    \/ \E c \in Tasks : \E r \in CallIds : Call(c, r)
    \/ \E c \in Tasks : LockPool(c)
    \/ \E c \in Tasks : OpenOk(c)
    \/ \E c \in Tasks : OpenFail(c)
    \/ \E c \in Tasks : OpenSleep(c)
    \/ \E c \in Tasks : PragmaOk(c)
    \/ \E c \in Tasks : PragmaFail(c)
    \/ \E c \in Tasks : PragmaSleep(c)
    \/ \E c \in Tasks : ExecOk(c)
    \/ \E c \in Tasks : ExecFail(c)
    \/ \E c \in Tasks : Sleep(c)
    \/ \E c \in Tasks : PopulateOk(c)
    \/ \E c \in Tasks : PopulateFail(c)

(***************************************************************************)
(* The *_safe command handlers as processes (commands.rs 143-337): the     *)
(* validation, then retry_with_backoff(closure, RetryConfig::default())    *)
(* whose closure calls execute_with_cache once per statement, as task 1.   *)
(* cmd.pc: "idle" before the first invocation, "op" in the closure before  *)
(* its next statement, "wait" at execute_with_cache(..).await, "sleep" at  *)
(* the loop's sleep, "done" once the handler has returned cmd.result.      *)
(* cmd.calls counts the calls of execute_with_cache of the invocation,     *)
(* cmd.loops its entries into the retry loop, cmd.firstSent / firstApplied *)
(* the db.execute calls of the closure's first statement and those that    *)
(* succeeded (read at the call's return), cmd.left the invocations         *)
(* still to come.                                                          *)
(***************************************************************************)
\* invocations and store failures tried
CmdInvokes == 2
CmdFaults == 3

\* the checks at the head of each handler, in program order
Validate(a) ==
    CASE a.name = "create_manuscript_safe" ->
            IF ~validate_manuscript_title(a.title.v).ok
            THEN validate_manuscript_title(a.title.v)
            ELSE IF StrLen(a.text.v) > MaxTextLen
            THEN Err(validation_field("Text content too large (max 1MB)", "text",
                                      CharsText(StrLen(a.text.v))))
            ELSE Ok(<<>>)
      [] a.name = "get_scenes_safe" -> validate_manuscript_id(a.id)
      [] a.name = "update_scene_safe" ->
            IF ~validate_scene_id(a.id).ok
            THEN validate_scene_id(a.id)
            ELSE IF a.text.some /\ StrLen(a.text.v) > MaxSceneTextLen
            THEN Err(validation_field("Scene text too large (max 500KB)", "raw_text",
                                      CharsText(StrLen(a.text.v))))
            ELSE Ok(<<>>)
      [] a.name = "delete_manuscript_safe" -> validate_manuscript_id(a.id)

\* a handler that goes on whatever the checks returned
RejectedNever(v) == FALSE

\* the `?` and the `return Err(..)` after a check
Rejected(v) == ~v.ok

\* what the handler returns once its loop returned Ok
CmdValue(a, last) ==
    CASE a.name = "create_manuscript_safe" -> [id |-> NewManuscriptId]
      [] a.name = "get_scenes_safe" -> last
      [] OTHER -> [success |-> TRUE]

Invoke(i) ==
    /\ cmd.pc \in {"idle", "done"}
    /\ cmd.left > 0
    /\ LET v == Validate(CmdInputs[i])
           c0 == [CmdIdle EXCEPT !.inp = i, !.left = cmd.left - 1]
       IN  cmd' = IF Rejected(v)
                  THEN [c0 EXCEPT !.pc = "done", !.result = Err(v.error)]
                  ELSE [c0 EXCEPT !.pc = "op", !.attempt = 1, !.stmt = 1,
                                  !.loops = 1,
                                  !.delay_ms = RetryConfigDefault.initial_delay_ms]
    /\ UNCHANGED <<rw, fn, svcVars>>

\* the closure calls execute_with_cache with its next statement
CmdCall ==
    /\ cmd.pc = "op"
    /\ cmd.stmt <= Len(StatementsOf[cmd.inp])
    /\ EnterCall(1, StmtBase[cmd.inp] + cmd.stmt)
    /\ cmd' = [cmd EXCEPT !.pc = "wait", !.calls = @ + 1]
    /\ UNCHANGED <<rw, fn, env>>

\* the closure has no statement left: it returns Ok, and so do the loop and
\* the handler
CmdClosureOk ==
    /\ cmd.pc = "op"
    /\ cmd.stmt > Len(StatementsOf[cmd.inp])
    /\ cmd' = [cmd EXCEPT !.pc = "done",
                 !.result = Ok(CmdValue(CmdInputs[cmd.inp], task[1].result.value))]
    /\ UNCHANGED <<rw, fn, svcVars>>

\* execute_with_cache has returned: on Ok the closure goes on; an Err leaves
\* the closure through `?`, and the loop sleeps and runs the closure again or
\* returns the error
CmdReturn ==
    /\ cmd.pc = "wait"
    /\ task[1].pc = "done"
    /\ LET out == task[1].result
           first == cmd.stmt = 1
           c1 == [cmd EXCEPT
                    !.firstSent = IF first THEN @ + hist.execs[1] ELSE @,
                    !.firstApplied = IF first THEN @ + hist.okExecs[1] ELSE @]
       IN  cmd' = IF out.ok
                  THEN [c1 EXCEPT !.pc = "op", !.stmt = @ + 1]
                  ELSE IF RetryAgain(cmd.attempt, RetryConfigDefault, out.error)
                  THEN [c1 EXCEPT !.pc = "sleep", !.last_error = out.error]
                  ELSE [c1 EXCEPT !.pc = "done", !.last_error = out.error,
                                  !.result = Err(out.error)]
    /\ UNCHANGED <<rw, fn, svcVars>>

\* a loop that resumes the closure at the statement that failed
CmdSleepResumes ==
    /\ cmd.pc = "sleep"
    /\ cmd' = [cmd EXCEPT !.pc = "op", !.attempt = @ + 1,
                 !.delay_ms = NextDelay(@, RetryConfigDefault)]
    /\ UNCHANGED <<rw, fn, svcVars>>

\* tokio::time::sleep of the handler's loop, then the closure runs again from
\* its first statement
CmdSleep ==
    /\ cmd.pc = "sleep"
    /\ cmd' = [cmd EXCEPT !.pc = "op", !.stmt = 1, !.attempt = @ + 1,
                 !.delay_ms = NextDelay(@, RetryConfigDefault)]
    /\ UNCHANGED <<rw, fn, svcVars>>

(***************************************************************************)
(* Pure functions applied to inputs of bounded sets.  fn holds the         *)
(* function's name, its input and, once applied (done), its output.        *)
(***************************************************************************)
FnStart(name, input) == [name |-> name, input |-> input, output |-> <<>>, done |-> FALSE]

FnApplied(output) == [fn EXCEPT !.output = output, !.done = TRUE]

\* titles: run-length encoded, around the limit, ASCII and not
Titles ==
    { <<>> }
    \cup { RunOf(ch, n) : ch \in {"a", " "}, n \in {1, 2, 254, 255, 256, 257, 300, 1000} }
    \cup { RunOf("U+00E9", n) : n \in {1, 127, 128, 255, 256} }
    \cup { RunOf("U+20AC", n) : n \in {85, 86, 255} }
    \cup { RunOf("a", n) \o RunOf("U+00E9", 1) : n \in {252, 253, 254, 255} }
    \cup { RunOf("V", 1) \o RunOf("a", 1) \o RunOf("l", 1) \o RunOf("i", 1)
            \o RunOf("d", 1) \o RunOf(" ", 1) \o RunOf("T", 1) }

\* (sql, params) arguments of execute_with_cache that differ in text, in a
\* parameter, in the number of parameters or in their order
KeyCalls ==
    { [sql |-> <<"s">>, params |-> <<>>],
      [sql |-> <<"s">>, params |-> <<<<"a">>>>],
      [sql |-> <<"s">>, params |-> <<<<"a">>, <<"b">>>>],
      [sql |-> <<"s">>, params |-> <<<<"b">>, <<"a">>>>],
      [sql |-> <<"s">>, params |-> <<<<"a", "\"", ",", " ", "\"", "b">>>>],
      [sql |-> <<"s">>, params |-> <<<<"a", "b">>>>],
      [sql |-> <<"s">>, params |-> <<<<"a">>, <<>>>>],
      [sql |-> <<"s">>, params |-> <<<<>>, <<"a">>>>],
      [sql |-> <<"s">>, params |-> <<<<>>>>],
      [sql |-> <<"s", ":", "[", "]">>, params |-> <<>>],
      [sql |-> <<"s", ":", "[", "\"", "a", "\"", "]">>, params |-> <<>>],
      [sql |-> <<"t">>, params |-> <<<<"a">>>>],
      [sql |-> <<"S">>, params |-> <<<<"a">>>>],
      [sql |-> <<"s">>, params |-> <<<<"a", "\\">>>>],
      [sql |-> <<"s">>, params |-> <<<<"a", "\\", "\\">>>>],
      [sql |-> <<"s">>, params |-> <<<<"a", ",", " ", "b">>>>],
      [sql |-> <<>>, params |-> <<>>],
      [sql |-> <<":">>, params |-> <<>>],
      [sql |-> <<"s", " ">>, params |-> <<<<"a">>>>],
      [sql |-> <<"s", ":", "[", "\"", "a", "\"", ",", " ", "\"", "b", "\"", "]">>, params |-> <<>>],
      [sql |-> <<"s">>, params |-> <<<<"a", "\"">>, <<" ", "\"", "b">>>>],
      [sql |-> <<"s", ":", "[">>, params |-> <<<<"\"", "]">>>>] }

ApplyTitle ==
    /\ fn.name = "validate_manuscript_title"
    /\ ~fn.done
    /\ fn' = FnApplied(validate_manuscript_title(fn.input))
    /\ UNCHANGED <<rw, cmd, svcVars>>

ApplyKey ==
    /\ fn.name = "cache_key"
    /\ ~fn.done
    /\ fn' = FnApplied(<<CacheKey(fn.input[1].sql, fn.input[1].params),
                         CacheKey(fn.input[2].sql, fn.input[2].params)>>)
    /\ UNCHANGED <<rw, cmd, svcVars>>

\* a message that shows the raw text of the error
user_message_raw(e) == <<e.kind, ": ", e.message>>

(***************************************************************************)
(* AppError::user_message (error.rs 270-305).  The text of a format! is    *)
(* kept as its pieces: the literal parts and the arguments, in order.      *)
(***************************************************************************)
user_message(e) ==
    CASE e.kind = "Database" ->
            <<"There was a problem accessing the database. Please try again.">>
      [] e.kind = "FileSystem" ->
            <<"Unable to ", e.operation,
              " the file. Please check file permissions and try again.">>
      [] e.kind = "Network" ->
            <<"Network connection problem. Please check your internet connection.">>
      [] e.kind = "Validation" ->
            IF e.field # "None"
            THEN <<"Please check the ", e.field, " field and try again.">>
            ELSE <<"Please check your input and try again.">>
      [] e.kind = "Export" ->
            <<"Unable to export as ", e.format, ". Please try a different format.">>
      [] e.kind = "NotFound" ->
            <<"The ", e.resource, " could not be found.">>
      [] e.kind = "Permission" ->
            <<"Permission required: ", e.required_permission,
              ". Please check your access rights.">>
      [] e.kind = "Timeout" ->
            <<"The ", e.operation, " operation timed out. Please try again.">>
      [] e.kind = "RateLimit" ->
            <<"Too many requests. Please wait a moment and try again.">>
      [] OTHER -> <<"An unexpected error occurred. Please try again.">>

\* HTTP-like status codes tried on a Network error
StatusCodes == {NoneVal, 0, 200, 302, 400, 404, 428, 429, 430, 499, 500, 501, 503, 599}

\* retry-after hints tried on a RateLimit error
RetryAfters == {NoneVal, 0, 50, 1000, 5000}

\* errors of every kind, varied in each of their fields
ErrorSamples ==
    LET base(kind) == MkError(kind, "backend said: disk I/O error", "None",
                              NoneVal, NoneVal)
        texts(e) ==
            { [e EXCEPT !.message = m, !.query = q, !.code = c, !.url = u, !.value = v] :
                m \in {"backend said: disk I/O error", "no such table: scenes"},
                q \in {"None", "SELECT * FROM scenes"},
                c \in {"None", "SQLITE_BUSY"},
                u \in {"None", "https://api.example/v1"},
                v \in {"None", "x"} }
    IN  UNION { texts(base(k)) : k \in ErrorKinds \ {"Network", "RateLimit",
                                      "Validation", "FileSystem", "Timeout"} }
        \cup UNION { texts([base("Network") EXCEPT !.status_code = sc]) :
                       sc \in StatusCodes }
        \cup UNION { texts([base("RateLimit") EXCEPT !.retry_after = ra]) :
                       ra \in RetryAfters }
        \cup UNION { texts([base("Validation") EXCEPT !.field = f]) :
                       f \in {"None", "title", "manuscript_id"} }
        \cup UNION { texts([base(k) EXCEPT !.operation = op]) :
                       k \in {"FileSystem", "Timeout"}, op \in {"read", "write"} }
        \cup { [base("Export") EXCEPT !.format = f] : f \in {"pdf", "docx"} }
        \cup { [base("NotFound") EXCEPT !.resource = r] : r \in {"Manuscript", "Scene"} }
        \cup { [base("Permission") EXCEPT !.required_permission = r] :
                 r \in {"fs:write", "dialog:open"} }

\* the three methods of an error, applied together
ApplyError ==
    /\ fn.name = "app_error"
    /\ ~fn.done
    /\ fn' = FnApplied([is_retryable |-> is_retryable(fn.input),
                        retry_delay_ms |-> retry_delay_ms(fn.input),
                        user_message |-> user_message(fn.input)])
    /\ UNCHANGED <<rw, cmd, svcVars>>

(***************************************************************************)
(* ErrorLogger::get_recent_errors (error.rs 371-384).  A line of the log   *)
(* file is <<"J", n>>, the JSON that log_error wrote for entry n, or       *)
(* <<"T", n>>, text that is no JSON of an ErrorLogEntry (the fallback      *)
(* format of log_error, a torn line).                                      *)
(***************************************************************************)
\* longest log file tried
MaxLogLen == 3
\* largest limit tried
MaxLimit == 4

LogLines == {<<k, n>> : k \in {"J", "T"}, n \in 1..2}

\* serde_json::from_str::<ErrorLogEntry>(line)
ParseLine(line) == IF line[1] = "J" THEN Ok(line[2]) ELSE Err(NoError)

Reverse(s) == [i \in 1..Len(s) |-> s[Len(s) + 1 - i]]

\* Iterator::take
Take(s, n) == SubSeq(s, 1, Min(n, Len(s)))

\* the loop of lines 375-379: the entries of the lines that parse, in order
RECURSIVE ParsedEntries(_)
ParsedEntries(lines) ==
    IF lines = <<>> THEN <<>>
    ELSE (IF ParseLine(Head(lines)).ok THEN <<ParseLine(Head(lines)).value>> ELSE <<>>)
         \o ParsedEntries(Tail(lines))

\* errors.reverse() of line 381
FinalOrder(errors) == Reverse(errors)

get_recent_errors(content, limit) ==
    FinalOrder(ParsedEntries(Take(Reverse(content), limit)))

LogFiles == UNION { [1..n -> LogLines] : n \in 0..MaxLogLen }

ApplyRecent ==
    /\ fn.name = "get_recent_errors"
    /\ ~fn.done
    /\ fn' = FnApplied(get_recent_errors(fn.input.content, fn.input.limit))
    /\ UNCHANGED <<rw, cmd, svcVars>>

NextFn == ApplyTitle \/ ApplyKey \/ ApplyError \/ ApplyRecent

InitFn ==
    /\ rw = RetryIdle
    /\ cmd = CmdIdle
    /\ InitService({}, 0, 0, 0)
    /\ \/ \E t \in Titles : fn = FnStart("validate_manuscript_title", t)
       \/ \E a, b \in KeyCalls : fn = FnStart("cache_key", <<a, b>>)
       \/ \E e \in ErrorSamples : fn = FnStart("app_error", e)
       \/ \E content \in LogFiles, limit \in 0..MaxLimit :
             fn = FnStart("get_recent_errors", [content |-> content, limit |-> limit])

SpecFn == InitFn /\ [][NextFn]_vars

(***************************************************************************)
(* Specifications                                                          *)
(*   SpecRetry  retry_with_backoff on an operation of arbitrary outcomes   *)
(*   Spec       the tasks call execute_with_cache concurrently             *)
(*   SpecSeq    one task calls execute_with_cache again and again, while   *)
(*              time passes and the cache may be cleared                   *)
(*   SpecCold   one task calls execute_with_cache on a store that may      *)
(*              fail often enough to exhaust the nested retry loops        *)
(***************************************************************************)
InitRetry ==
    /\ \E config \in RetryConfigs : rw = RetryFrame("start", config)
    /\ cmd = CmdIdle
    /\ fn = FnIdle
    /\ InitService({}, 0, 0, 0)

SpecRetry == InitRetry /\ [][NextRetry]_vars

Init ==
    /\ rw = RetryIdle
    /\ cmd = CmdIdle
    /\ fn = FnIdle
    /\ InitService(Tasks, MaxCalls, MaxFaults, 0)

Next == NextCalls

Spec == Init /\ [][Next]_vars

\* the steps of task c inside a call: each is the return of an await
\* (lock().await, a store call, tokio::time::sleep) or runs to the next await
Progress(c) ==
    \/ LockPool(c)
    \/ OpenOk(c) \/ OpenFail(c) \/ OpenSleep(c)
    \/ PragmaOk(c) \/ PragmaFail(c) \/ PragmaSleep(c)
    \/ ExecOk(c) \/ ExecFail(c) \/ Sleep(c)
    \/ PopulateOk(c) \/ PopulateFail(c)

\* the service with a runtime that polls every task whose await can complete,
\* a store whose calls return and sleeps that end
SpecLive == Init /\ [][Next]_vars /\ \A c \in Tasks : WF_vars(Progress(c))

InitSeq ==
    /\ rw = RetryIdle
    /\ cmd = CmdIdle
    /\ fn = FnIdle
    /\ InitService({1}, SeqCalls, SeqFaults, MaxTicks)

NextSeq == NextCalls \/ clear_cache \/ Tick

SpecSeq == InitSeq /\ [][NextSeq]_vars

InitCold ==
    /\ rw = RetryIdle
    /\ cmd = CmdIdle
    /\ fn = FnIdle
    /\ InitService({1}, ColdCalls, ColdFaults, 0)

NextCold == NextCalls

SpecCold == InitCold /\ [][NextCold]_vars

InitCmd ==
    /\ rw = RetryIdle
    /\ cmd = [CmdIdle EXCEPT !.left = CmdInvokes]
    /\ fn = FnIdle
    /\ InitService({}, 0, CmdFaults, 0)

NextCmd ==
    \/ \E i \in CmdIds : Invoke(i)
    \/ CmdCall
    \/ CmdClosureOk
    \/ CmdReturn
    \/ CmdSleep
    \/ \E c \in Tasks : LockPool(c)
    \/ \E c \in Tasks : OpenOk(c)
    \/ \E c \in Tasks : OpenFail(c)
    \/ \E c \in Tasks : OpenSleep(c)
    \/ \E c \in Tasks : PragmaOk(c)
    \/ \E c \in Tasks : PragmaFail(c)
    \/ \E c \in Tasks : PragmaSleep(c)
    \/ \E c \in Tasks : ExecOk(c)
    \/ \E c \in Tasks : ExecFail(c)
    \/ \E c \in Tasks : Sleep(c)
    \/ \E c \in Tasks : PopulateOk(c)
    \/ \E c \in Tasks : PopulateFail(c)

SpecCmd == InitCmd /\ [][NextCmd]_vars

(***************************************************************************)
(* One handler invoked on a service whose connection an earlier command    *)
(* has initialized, with a store that fails often enough for the handler's *)
(* loop and the facade's loop inside it to run out of attempts.            *)
(***************************************************************************)
\* invocations and store failures tried
CreateInvokes == 1
CreateFaults == 9

InitCreate ==
    /\ rw = RetryIdle
    /\ cmd = [CmdIdle EXCEPT !.left = CreateInvokes]
    /\ fn = FnIdle
    /\ pool = 1
    /\ poolLock = 0
    /\ query_cache = EmptyCache
    /\ errorLog = <<>>
    /\ task = [c \in Tasks |-> TaskInit]
    /\ store = [version |-> 0, opened |-> 1, openAttempts |-> 1,
                pragmaCount |-> Len(Pragmas),
                applied |-> [h \in {1} |-> 1..Len(Pragmas)]]
    /\ now = 0
    /\ env = [callers |-> {}, calls |-> 0, faults |-> CreateFaults, ticks |-> 0]
    /\ hist = HistInit

NextCreate ==
    \/ \E i \in CmdIds : Invoke(i)
    \/ CmdCall
    \/ CmdClosureOk
    \/ CmdReturn
    \/ CmdSleep
    \/ \E c \in Tasks : LockPool(c)
    \/ \E c \in Tasks : ExecOk(c)
    \/ \E c \in Tasks : ExecFail(c)
    \/ \E c \in Tasks : Sleep(c)
    \/ \E c \in Tasks : PopulateOk(c)
    \/ \E c \in Tasks : PopulateFail(c)

SpecCreate == InitCreate /\ [][NextCreate]_vars

(***************************************************************************)
(* A warm service with a full cache: the connection is published and the   *)
(* cache holds the results of about MaxEntries distinct SELECTs that       *)
(* earlier callers made, some of them long ago.                            *)
(***************************************************************************)
\* capacity above which the specification sweeps the cache
MaxEntries == 1000

\* entries of the full cache that are older than the TTL
OldEntries == 5

\* calls, store failures and clock ticks tried on the full cache
WarmCalls == 1
WarmFaults == 1
WarmTicks == 1

\* a SELECT with one parameter, and the keys of its calls with 1, 2, ..
FillSql == <<"S", "E", "L", "E", "C", "T", " ", "?">>

FillKeys(count) == {CacheKey(FillSql, <<to_string(n)>>) : n \in 1..count}

InitWarm ==
    /\ rw = RetryIdle
    /\ cmd = CmdIdle
    /\ fn = FnIdle
    /\ pool = 1
    /\ poolLock = 0
    /\ errorLog = <<>>
    /\ task = [c \in Tasks |-> TaskInit]
    /\ store = [version |-> 0, opened |-> 1, openAttempts |-> 1,
                pragmaCount |-> Len(Pragmas),
                applied |-> [h \in {1} |-> 1..Len(Pragmas)]]
    /\ now = TTL + TickSecs
    /\ env = [callers |-> {1}, calls |-> WarmCalls, faults |-> WarmFaults,
              ticks |-> WarmTicks]
    /\ \E count \in {MaxEntries - 1, MaxEntries, MaxEntries + 1} :
       \E old \in {0, OldEntries} :
          /\ query_cache = [k \in FillKeys(count) |-> to_string(7)]
          /\ hist = [HistInit EXCEPT !.insertedAt =
                        [k \in FillKeys(count) |->
                            IF k \in FillKeys(old) THEN 0 ELSE TTL + TickSecs]]

NextWarm ==
    \/ \E c \in Tasks : \E r \in CallIds : Call(c, r)
    \/ \E c \in Tasks : LockPool(c)
    \/ \E c \in Tasks : ExecOk(c)
    \/ \E c \in Tasks : ExecFail(c)
    \/ \E c \in Tasks : Sleep(c)
    \/ \E c \in Tasks : PopulateOk(c)
    \/ \E c \in Tasks : PopulateFail(c)
    \/ Tick

SpecWarm == InitWarm /\ [][NextWarm]_vars

(***************************************************************************)
(* Two tasks calling execute_with_cache concurrently on a service whose    *)
(* connection is initialized and whose cache is empty (after a read and a  *)
(* clear_cache): the lookup (155-161) and the insert (194) of one call are *)
(* two critical sections, and other calls run between them.                *)
(***************************************************************************)
\* calls and store failures tried
RaceCalls == 3
RaceFaults == 1

InitRace ==
    /\ rw = RetryIdle
    /\ cmd = CmdIdle
    /\ fn = FnIdle
    /\ pool = 1
    /\ poolLock = 0
    /\ query_cache = EmptyCache
    /\ errorLog = <<>>
    /\ task = [c \in Tasks |-> TaskInit]
    /\ store = [version |-> 0, opened |-> 1, openAttempts |-> 1,
                pragmaCount |-> Len(Pragmas),
                applied |-> [h \in {1} |-> 1..Len(Pragmas)]]
    /\ now = 0
    /\ env = [callers |-> Tasks, calls |-> RaceCalls, faults |-> RaceFaults,
              ticks |-> 0]
    /\ hist = HistInit

NextRace ==
    \/ \E c \in Tasks : \E r \in CallIds : Call(c, r)
    \/ \E c \in Tasks : LockPool(c)
    \/ \E c \in Tasks : ExecOk(c)
    \/ \E c \in Tasks : ExecFail(c)
    \/ \E c \in Tasks : Sleep(c)
    \/ \E c \in Tasks : PopulateOk(c)
    \/ \E c \in Tasks : PopulateFail(c)

SpecRace == InitRace /\ [][NextRace]_vars

(***************************************************************************)
(* Properties of retry_with_backoff, under SpecRetry                       *)
(***************************************************************************)
\* every recorded outcome is a failure with a retryable error
AllRetryable(outs) ==
    \A i \in 1..Len(outs) : ~outs[i].ok /\ is_retryable(outs[i].error)

\* C4: with max_attempts = n >= 1 and an operation that fails with a retryable
\* error every time, the loop returns after exactly n invocations, and it
\* returns the error of the n-th.
C4_RetryExhaustion ==
    (/\ rw.pc = "done"
     /\ rw.config.max_attempts >= 1
     /\ AllRetryable(rw.outcomes))
    => /\ rw.calls = rw.config.max_attempts
       /\ Len(rw.outcomes) = rw.config.max_attempts
       /\ rw.result = Err(rw.outcomes[rw.config.max_attempts].error)

C4_Witness ==
    /\ rw.pc = "done"
    /\ rw.config.max_attempts = 3
    /\ rw.calls = 3
    /\ AllRetryable(rw.outcomes)
    /\ rw.outcomes[3].error.kind = "Database"
    /\ rw.outcomes[1].error.kind = "Network"
    /\ rw.result = Err(rw.outcomes[3].error)

\* C5: a failure with a non-retryable error ends the loop at once: it is the
\* last invocation and its error is what the loop returns, whatever
\* max_attempts is; so an operation that fails with such an error on its
\* first invocation is invoked exactly once.
C5_NonRetryableOnce ==
    \A i \in 1..Len(rw.outcomes) :
        (~rw.outcomes[i].ok /\ ~is_retryable(rw.outcomes[i].error))
        => /\ i = Len(rw.outcomes)
           /\ rw.calls = i
           /\ rw.pc = "done"
           /\ rw.result = Err(rw.outcomes[i].error)

C5_Witness ==
    /\ rw.pc = "done"
    /\ rw.config.max_attempts = 3
    /\ rw.calls = 1
    /\ rw.outcomes[1].error.kind = "Validation"
    /\ rw.result = Err(rw.outcomes[1].error)

\* C6: when the operation succeeds after k failures, k < max_attempts, all of
\* them retryable, the loop returns that success and the operation has been
\* invoked k + 1 times; nothing is invoked after a success.
C6_RecoversAfterTransient ==
    LET n == Len(rw.outcomes)
    IN  /\ \A i \in 1..n : rw.outcomes[i].ok => i = n
        /\ (n > 0 /\ rw.outcomes[n].ok)
           => /\ rw.pc = "done"
              /\ rw.result = rw.outcomes[n]
              /\ rw.calls = n
              /\ n <= rw.config.max_attempts
              /\ AllRetryable(SubSeq(rw.outcomes, 1, n - 1))

C6_Witness ==
    /\ rw.pc = "done"
    /\ rw.config = MkRetryConfig(3, 10, 100, 20)
    /\ rw.calls = 3
    /\ rw.outcomes[1].error.kind = "Network"
    /\ rw.outcomes[2].error.kind = "Network"
    /\ rw.result = Ok(1)

(***************************************************************************)
(* Properties of execute_with_cache and get_connection under concurrent    *)
(* callers, under Spec                                                     *)
(***************************************************************************)
\* the first keyword of a statement, read off its text
Keyword(sql, word) == starts_with(to_uppercase(trim(sql)), word)

MutationWords ==
    { <<"I", "N", "S", "E", "R", "T">>, <<"U", "P", "D", "A", "T", "E">>,
      <<"D", "E", "L", "E", "T", "E">>, <<"P", "R", "A", "G", "M", "A">> }

\* INSERT / UPDATE / DELETE / PRAGMA statements
IsMutation(sql) == \E w \in MutationWords : Keyword(sql, w)

MutationSamples ==
    { <<"I", "N", "S", "E", "R", "T", " ", "I", "N", "T", "O", " ", "t">>,
      <<" ", "u", "p", "d", "a", "t", "e", " ", "t", " ", "s", "e", "t">>,
      <<"D", "e", "l", "e", "t", "e", " ", "f", "r", "o", "m", " ", "t">>,
      <<"P", "R", "A", "G", "M", "A", " ", "f", "o", "r", "e", "i", "g", "n",
        "_", "k", "e", "y", "s", "=", "O", "N">> }

\* the prefix test of execute_with_cache takes none of them for a SELECT
MutationsAreNoSelect ==
    \A sql \in MutationSamples : IsMutation(sql) /\ ~IsSelect(sql)

MutationReqs == {r \in ReqIds : IsMutation(Requests[r].sql)}

\* c is inside, or has returned from, a call with a mutation
InMutation(c) == task[c].req \in MutationReqs

\* C2: a call of execute_with_cache with an INSERT / UPDATE / DELETE / PRAGMA
\* statement never looks the cache up, no step of it changes the cache map
\* (whatever the cache holds), no key of such a statement is ever in the
\* cache, and the call has gone through get_connection at least once by the
\* time it returns.
C2_WriteBypass ==
    /\ [](/\ MutationsAreNoSelect
          /\ \A r \in MutationReqs : ReqKey[r] \notin DOMAIN query_cache
          /\ \A c \in Tasks :
                InMutation(c)
                => /\ hist.reads[c] = 0
                   /\ ~hist.hit[c]
                   /\ task[c].pc # "populate"
                   /\ task[c].pc = "done" => hist.conns[c] >= 1)
    /\ [][\A c \in Tasks :
            (task'[c] # task[c] /\ task'[c].req \in MutationReqs)
            => query_cache' = query_cache]_vars

\* a DELETE has returned its result while the cache held an entry
C2_Witness ==
    \E c \in Tasks :
        /\ task[c].pc = "done"
        /\ task[c].req = 3
        /\ InMutation(c)
        /\ task[c].result = Ok(1)
        /\ hist.conns[c] = 1
        /\ query_cache # EmptyCache

\* positions of get_connection between the lock and the return
InitPcs == {"open", "openSleep", "pragma", "pragmaSleep"}

\* C7: on a cold start with concurrent callers of get_connection, at most one
\* of them is between open and publish, and it holds the pool mutex while the
\* pool is still None; every caller that got a handle got the published one;
\* only one handle is ever live; and unless a get_connection failed, the store
\* was opened once: with no store failure at all, initialize was called once
\* and the four PRAGMAs ran once each.
C7_SingleInitialization ==
    /\ \A c, d \in Tasks :
          (task[c].pc \in InitPcs /\ task[d].pc \in InitPcs) => c = d
    /\ \A c \in Tasks :
          task[c].pc \in InitPcs => (poolLock = c /\ pool = 0)
    /\ \A c \in Tasks :
          task[c].pc = "exec" => (task[c].db = pool /\ pool # 0)
    /\ pool # 0 => (pool = store.opened /\ poolLock = 0)
    /\ DOMAIN store.applied \subseteq {store.opened}
    /\ ~hist.initFailed => store.opened <= 1
    /\ env.faults = MaxFaults
       => /\ store.openAttempts <= 1
          /\ store.pragmaCount <= Len(Pragmas)
          /\ pool # 0 => /\ store.openAttempts = 1
                         /\ store.pragmaCount = Len(Pragmas)

\* both callers are at db.execute with the one handle of the one initialization
C7_Witness ==
    /\ \A c \in Tasks : task[c].pc = "exec" /\ task[c].db = 1
    /\ pool = 1
    /\ store.openAttempts = 1
    /\ store.pragmaCount = 4
    /\ env.faults = MaxFaults

\* C10: a call whose db.execute succeeded returns that fresh result, also when
\* serializing it for the cache failed.
C10_SerializationFailureKeepsResult ==
    \A c \in Tasks :
        (task[c].pc = "done" /\ hist.okExecs[c] >= 1)
        => task[c].result = Ok(task[c].value)

(***************************************************************************)
(* Properties of the cache over sequential calls, under SpecSeq            *)
(***************************************************************************)
\* C1: when a task repeats a SELECT that returned r, less than 300 seconds
\* after that call returned and with the cache neither cleared nor that entry
\* replaced in between, the second call returns r from the cache: it acquires
\* no connection, executes nothing on the store and enters no retry loop.  The
\* call that missed executed the statement successfully once (exactly once
\* when the store never failed), so the two calls issue one store execute.
C1_CacheRoundTrip ==
    \A c \in Tasks :
        /\ hist.expect[c] # NoneVal
           => /\ task[c].pc = "done"
              /\ hist.hit[c]
              /\ task[c].result = Ok(hist.expect[c])
              /\ hist.conns[c] = 0
              /\ hist.execs[c] = 0
              /\ task[c].attempt = 0
        /\ (/\ task[c].pc = "done"
            /\ task[c].req # 0
            /\ ReqIsSelect[task[c].req]
            /\ task[c].result.ok
            /\ ~hist.hit[c])
           => /\ hist.okExecs[c] = 1
              /\ task[c].result = Ok(task[c].value)
              /\ env.faults = SeqFaults => hist.execs[c] = 1

\* the second of two identical SELECTs, 150 seconds after the first, returned
\* the first one's result from the cache
C1_Witness ==
    /\ hist.expect[1] # NoneVal
    /\ task[1].pc = "done"
    /\ task[1].req = 2
    /\ task[1].result = Ok(hist.expect[1])
    /\ hist.hit[1]
    /\ hist.hitAge[1] > 0
    /\ hist.hitAge[1] < TTL
    /\ hist.execs[1] = 0
    /\ env.calls = SeqCalls - 2

\* C3: a lookup returns an entry only while now - insertedAt < 300 seconds: a
\* SELECT repeated after the TTL window bypasses the cache.
C3_CacheExpiry ==
    \A c \in Tasks :
        (task[c].pc = "done" /\ hist.hit[c]) => hist.hitAge[c] < TTL

(***************************************************************************)
(* Properties of a cold start on a failing store, under SpecCold           *)
(***************************************************************************)
PragmaErrors ==
    {database_with_query(Pragmas[p].fail, Pragmas[p].sql) : p \in 1..Len(Pragmas)}

\* C8 as stated: once any of the four session statements has failed in a
\* get_connection, the pool is None (and stays so until a later caller
\* initializes from scratch).
C8_AnyPragmaFailureFailsInit ==
    \A c \in Tasks : hist.pragmaFailed[c] => pool = 0

\* C8 amended: a failing session statement is retried by get_connection's
\* second retry loop (the four statements run again on the same unpublished
\* handle, under the pool mutex); only when a statement fails on the loop's
\* last attempt does get_connection return the error, which is of kind
\* Database, with the pool still None, the mutex released and the handle
\* dropped.  The published handle always has all four settings, and the pool
\* is None as long as a caller is initializing.
C8_PartialConfigNeverPublished ==
    /\ pool # 0 => (/\ pool \in DOMAIN store.applied
                    /\ store.applied[pool] = 1..Len(Pragmas))
    /\ \A c \in Tasks :
          /\ task[c].pc \in InitPcs => pool = 0
          /\ task[c].pc = "pragmaSleep"
             => /\ hist.pragmaFailed[c]
                /\ task[c].iattempt < RetryConfigDefault.max_attempts
                /\ poolLock = c
                /\ task[c].db \in DOMAIN store.applied
          /\ (task[c].pc = "pragma" /\ hist.pragmaFailed[c])
             => task[c].iattempt > 1
          /\ (\/ task[c].pc = "sleep" /\ task[c].last_error \in PragmaErrors
              \/ task[c].pc = "done" /\ ~task[c].result.ok
                                     /\ task[c].result.error \in PragmaErrors)
             => /\ task[c].last_error.kind = "Database"
                /\ hist.pragmaFailed[c]
                /\ pool = 0
                /\ poolLock = 0
                /\ DOMAIN store.applied = {}
                /\ task[c].pc = "done"
                   => (task[c].result = Err(task[c].last_error) /\ hist.connErr[c])

\* the third statement failed on the third attempt: get_connection returned
\* the Database error and nothing was published
C8_Witness ==
    /\ task[1].pc = "sleep"
    /\ task[1].attempt = 1
    /\ task[1].last_error = database_with_query(Pragmas[3].fail, Pragmas[3].sql)
    /\ hist.pragmaFailed[1]
    /\ pool = 0
    /\ store.opened = 1
    /\ env.faults = ColdFaults - 3

\* C9: when the facade's retry loop is exhausted and execute_with_cache
\* returns a Database error, that error is in the error log (unless the
\* append to the log file itself failed), whether it came from db.execute or
\* from get_connection.
C9_ExhaustedRetriesLogged ==
    \A c \in Tasks :
        (/\ task[c].pc = "done"
         /\ ~task[c].result.ok
         /\ task[c].result.error.kind = "Database"
         /\ ~hist.logLost)
        => /\ task[c].result.error = task[c].last_error
           /\ \E i \in 1..Len(errorLog) : errorLog[i].error = task[c].result.error

(***************************************************************************)
(* Properties of the pure functions, under SpecFn                          *)
(***************************************************************************)
\* C12: the keys of two calls of execute_with_cache are equal exactly when
\* the two calls have the same SQL text and the same parameters in the same
\* order.
C12_CacheKeyInjective ==
    (fn.name = "cache_key" /\ fn.done)
    => /\ (fn.output[1] = fn.output[2]) <=> (fn.input[1] = fn.input[2])
       /\ (fn.output[1] = fn.output[2])
          <=> (/\ fn.input[1].sql = fn.input[2].sql
               /\ Len(fn.input[1].params) = Len(fn.input[2].params)
               /\ \A i \in 1..Len(fn.input[1].params) :
                     fn.input[1].params[i] = fn.input[2].params[i])

\* one parameter holding a", "b against the two parameters a and b: the keys
\* differ because the quotes inside the parameter are escaped
C12_Witness ==
    /\ fn.name = "cache_key"
    /\ fn.done
    /\ fn.input[1] = [sql |-> <<"s">>, params |-> <<<<"a", "\"", ",", " ", "\"", "b">>>>]
    /\ fn.input[2] = [sql |-> <<"s">>, params |-> <<<<"a">>, <<"b">>>>]
    /\ fn.output[1] # fn.output[2]
    /\ Len(fn.output[1]) = Len(fn.output[2]) + 2

\* C14: get_recent_errors(limit) returns at most limit entries, those of the
\* most recently appended lines, the newest entry first.
C14_RecentErrorsNewestFirst ==
    (fn.name = "get_recent_errors" /\ fn.done)
    => LET content == fn.input.content
           recent == {i \in 1..Len(content) :
                         /\ i > Len(content) - fn.input.limit
                         /\ ParseLine(content[i]).ok}
       IN  /\ Len(fn.output) <= fn.input.limit
           /\ Len(fn.output) = Cardinality(recent)
           /\ \A j \in 1..Len(fn.output) :
                 \E i \in recent :
                     /\ Cardinality({k \in recent : k >= i}) = j
                     /\ fn.output[j] = content[i][2]

\* Network status codes the code takes for a definite client error: any
\* status below 500 other than 429
DefiniteClientError(status_code) ==
    /\ status_code # NoneVal
    /\ status_code < 500
    /\ status_code # 429

\* C15: is_retryable is true for Database, Timeout and RateLimit, true for
\* Network unless the status code marks a definite client error (no status
\* code: retryable), and false for every other kind.
C15_RetryableClassification ==
    (fn.name = "app_error" /\ fn.done)
    => LET e == fn.input
           r == fn.output.is_retryable
       IN  /\ e.kind \in {"Database", "Timeout", "RateLimit"} => r
           /\ e.kind = "Network" => (r <=> ~DefiniteClientError(e.status_code))
           /\ (e.kind = "Network" /\ e.status_code = NoneVal) => r
           /\ e.kind \in {"FileSystem", "Internal", "Validation", "NotFound",
                          "Conflict", "Export", "Window", "Permission",
                          "Configuration"} => ~r

\* a Network error with status 404 is not retryable
C15_Witness ==
    /\ fn.name = "app_error"
    /\ fn.done
    /\ fn.input.kind = "Network"
    /\ fn.input.status_code = 404
    /\ ~fn.output.is_retryable

\* C16: retry_delay_ms is the carried retry_after, or 1000 without one, for
\* RateLimit, 1000 for Network, 500 for Database, 2000 for Timeout and None
\* for every other kind.
C16_RetryDelayHint ==
    (fn.name = "app_error" /\ fn.done)
    => LET e == fn.input
           d == fn.output.retry_delay_ms
       IN  /\ (e.kind = "RateLimit" /\ e.retry_after # NoneVal) => d = e.retry_after
           /\ (e.kind = "RateLimit" /\ e.retry_after = NoneVal) => d = 1000
           /\ e.kind = "Network" => d = 1000
           /\ e.kind = "Database" => d = 500
           /\ e.kind = "Timeout" => d = 2000
           /\ e.kind \notin {"RateLimit", "Network", "Database", "Timeout"}
              => d = NoneVal

\* a RateLimit error carrying retry_after = 5000 hints 5000 ms
C16_Witness ==
    /\ fn.name = "app_error"
    /\ fn.done
    /\ fn.input.kind = "RateLimit"
    /\ fn.input.retry_after = 5000
    /\ fn.output.retry_delay_ms = 5000

\* the fields the message must not depend on
TechnicalDetail(e) == {e.message, e.query, e.code, e.url, e.value} \ {"None"}

\* e and f are of the same kind and differ at most in the technical detail
SameButDetail(e, f) ==
    f = [e EXCEPT !.message = f.message, !.query = f.query, !.code = f.code,
                  !.url = f.url, !.value = f.value]

\* C17: user_message is the same for all errors of one kind that differ only
\* in message, query, code, url or value, and contains none of them; a
\* Database error gives the fixed database text and a Validation error with
\* field f the text naming f.
C17_UserMessageHidesDetail ==
    (fn.name = "app_error" /\ fn.done)
    => LET e == fn.input
           m == fn.output.user_message
       IN  /\ \A f \in ErrorSamples : SameButDetail(e, f) => user_message(f) = m
           /\ \A i \in 1..Len(m) : m[i] \notin TechnicalDetail(e)
           /\ e.kind = "Database"
              => m = <<"There was a problem accessing the database. Please try again.">>
           /\ (e.kind = "Validation" /\ e.field # "None")
              => m = <<"Please check the ", e.field, " field and try again.">>

\* a Validation error on the title field that carries a backend text, a
\* query and a value shows none of them
C17_Witness ==
    /\ fn.name = "app_error"
    /\ fn.done
    /\ fn.input.kind = "Validation"
    /\ fn.input.field = "title"
    /\ fn.input.message = "no such table: scenes"
    /\ fn.input.query = "SELECT * FROM scenes"
    /\ fn.input.value = "x"
    /\ fn.output.user_message = <<"Please check the ", "title", " field and try again.">>
    /\ \E f \in ErrorSamples : f # fn.input /\ SameButDetail(fn.input, f)

\* C18: validate_manuscript_title returns Ok exactly when the length of the
\* title (in bytes, as str::len counts) is between 1 and 255, and every
\* rejection is a Validation error with field "title".
C18_TitleLengthBounds ==
    (fn.name = "validate_manuscript_title" /\ fn.done)
    => /\ fn.output.ok <=> (1 <= StrLen(fn.input) /\ StrLen(fn.input) <= 255)
       /\ ~fn.output.ok => /\ fn.output.error.kind = "Validation"
                           /\ fn.output.error.field = "title"

\* a title of 255 one-byte characters is accepted
C18_Witness ==
    /\ fn.name = "validate_manuscript_title"
    /\ fn.done
    /\ fn.input = RunOf("a", 255)
    /\ fn.output.ok

(***************************************************************************)
(* Properties of the session configuration and of the locks                *)
(***************************************************************************)
\* C19 as stated: the handle in the pool has had each of the four session
\* statements applied exactly once (stated for the first handle opened).
C19_EachPragmaAppliedOnce ==
    (pool # 0 /\ store.opened = 1) => store.pragmaCount = Len(Pragmas)

\* C19 amended: each run of the configuration closure issues the four
\* statements in the order WAL, synchronous, cache_size, foreign_keys, one
\* after the success of the other, starting again from the first after a
\* failure; the handle is published by the step in which the fourth statement
\* of a run succeeds, with all four applied; and when no statement failed in
\* that get_connection each statement was applied exactly once.
C19_PragmasInOrderBeforePublish ==
    /\ [](/\ <<Pragmas[1].sql, Pragmas[2].sql, Pragmas[3].sql, Pragmas[4].sql>>
             = <<"PRAGMA journal_mode=WAL", "PRAGMA synchronous=NORMAL",
                 "PRAGMA cache_size=10000", "PRAGMA foreign_keys=ON">>
          /\ pool # 0 => store.applied[pool] = 1..4
          /\ \A c \in Tasks :
                /\ task[c].pc = "pragma"
                   => /\ task[c].pragma \in 1..4
                      /\ pool = 0
                      /\ 1..(task[c].pragma - 1) \subseteq store.applied[task[c].db]
                      /\ ~hist.pragmaFailed[c]
                         => store.applied[task[c].db] = 1..(task[c].pragma - 1)
                /\ task[c].pc = "pragmaSleep" => pool = 0)
    /\ [][\A c \in Tasks :
            /\ (task[c].pc = "pragma" /\ task'[c].pc = "pragma")
               => /\ task'[c].pragma = task[c].pragma + 1
                  /\ store'.applied[task[c].db]
                       = store.applied[task[c].db] \cup {task[c].pragma}
            /\ (task[c].pc = "pragmaSleep" /\ task'[c] # task[c])
               => (task'[c].pc = "pragma" /\ task'[c].pragma = 1)
            /\ (task[c].pc = "open" /\ task'[c].pc = "pragma")
               => (task'[c].pragma = 1 /\ store'.applied[task'[c].db] = {})
            /\ (task[c].pc = "pragma" /\ task'[c].pc \notin {"pragma", "pragmaSleep"})
               => \/ /\ task[c].pragma = 4
                     /\ pool = 0
                     /\ pool' = task[c].db
                     /\ store'.applied[pool'] = 1..4
                     /\ (~hist.pragmaFailed[c] /\ store.opened = 1)
                        => store'.pragmaCount = 4
                  \/ /\ pool' = 0
                     /\ task'[c].last_error \in PragmaErrors
            /\ (pool' # pool)
               => (pool = 0 /\ \E d \in Tasks : task[d].pc = "pragma"
                                               /\ task[d].pragma = 4)]_vars

\* the handle was published after the third statement had failed once and the
\* closure had been run again from the first
C19_Witness ==
    /\ pool = 1
    /\ store.opened = 1
    /\ store.applied[1] = 1..4
    /\ store.pragmaCount > Len(Pragmas)
    /\ hist.pragmaFailed[1]
    /\ task[1].pc = "exec"
    /\ task[1].iattempt = 2
    /\ env.faults = ColdFaults - 1

\* C20 as stated: the pool lock is not held across an I/O wait or a backoff
\* sleep.
C20_NoLockAcrossWait ==
    \A c \in Tasks :
        task[c].pc \in {"open", "openSleep", "pragma", "pragmaSleep", "exec", "sleep"}
        => poolLock # c

\* C20 amended: the pool lock is held across I/O waits and backoff sleeps by
\* the one caller that initializes the connection, from its lock of the empty
\* pool to the publication of the handle or the failure of get_connection,
\* and by nobody else: a caller that found or published the handle holds no
\* lock while it executes its statement, sleeps in the facade's retry loop or
\* fills the cache.
C20_LockHeldOnlyWhileInitializing ==
    \A c \in Tasks :
        /\ poolLock = c <=> task[c].pc \in InitPcs
        /\ poolLock = c => pool = 0
        /\ task[c].pc \in {"exec", "sleep", "populate", "lockPool", "idle", "done"}
           => poolLock # c

\* one caller sleeps in the second retry loop of get_connection with the pool
\* lock, the other waits for the lock
C20_Witness ==
    /\ task[1].pc = "pragmaSleep"
    /\ poolLock = 1
    /\ task[2].pc = "lockPool"
    /\ pool = 0

(***************************************************************************)
(* Properties of the cache at its capacity, under SpecWarm                 *)
(***************************************************************************)
\* C13: after an insertion that brings the cache above MaxEntries entries,
\* no entry older than the TTL is left, and every entry within the TTL is
\* still there.
C13_CapacitySweep ==
    [][(/\ query_cache' # query_cache
        /\ Cardinality(DOMAIN query_cache') > MaxEntries)
       => /\ \A k \in DOMAIN query_cache' : now - hist'.insertedAt[k] <= TTL
          /\ \A k \in DOMAIN query_cache :
                now - hist.insertedAt[k] <= TTL => k \in DOMAIN query_cache']_vars

(***************************************************************************)
(* Properties of the command handlers, under SpecCmd                       *)
(***************************************************************************)
\* an id that is no UUID
Malformed(id) == id # SampleUuid

\* arguments a handler has to reject: a malformed id, an empty or oversized
\* title of a new manuscript, an oversized text
InvalidInput(a) ==
    CASE a.name = "create_manuscript_safe" ->
            \/ StrLen(a.title.v) = 0
            \/ StrLen(a.title.v) > 255
            \/ StrLen(a.text.v) > 1000000
      [] a.name = "update_scene_safe" ->
            \/ Malformed(a.id)
            \/ a.text.some /\ StrLen(a.text.v) > 500000
      [] OTHER -> Malformed(a.id)

\* C11: a *_safe handler invoked with invalid arguments returns a Validation
\* error in the step of the invocation: it has made no call of
\* execute_with_cache, has not entered its retry loop, and the pool, the
\* cache, the store, the error log and the tasks are as they were; and a
\* handler returns a Validation error only for invalid arguments.
C11_ValidationBeforeAnyCall ==
    /\ [](cmd.inp # 0
          => LET a == CmdInputs[cmd.inp]
                 failed == /\ cmd.pc = "done"
                           /\ ~cmd.result.ok
                           /\ cmd.result.error.kind = "Validation"
             IN  /\ InvalidInput(a) <=> failed
                 /\ failed => /\ cmd.calls = 0
                              /\ cmd.loops = 0
                              /\ cmd.attempt = 0
                              /\ ~is_retryable(cmd.result.error)
                 /\ (cmd.calls > 0 \/ cmd.pc \in {"op", "wait", "sleep"})
                    => cmd.loops = 1)
    /\ [][(cmd'.inp # 0 /\ cmd'.left # cmd.left /\ InvalidInput(CmdInputs[cmd'.inp]))
          => /\ cmd'.pc = "done"
             /\ UNCHANGED <<pool, poolLock, query_cache, errorLog, task, store, hist>>]_vars

\* after an invocation that used the connection and the cache,
\* get_scenes_safe("not-a-uuid") returned the Validation error for the field
\* manuscript_id without a call
C11_Witness ==
    /\ cmd.pc = "done"
    /\ CmdInputs[cmd.inp].name = "get_scenes_safe"
    /\ CmdInputs[cmd.inp].id = NotAUuid
    /\ cmd.result.error.kind = "Validation"
    /\ cmd.result.error.field = "manuscript_id"
    /\ cmd.calls = 0
    /\ cmd.loops = 0
    /\ cmd.left = 0
    /\ pool # 0
    /\ query_cache # EmptyCache

(***************************************************************************)
(* Properties of the sleeps of retry_with_backoff, under SpecRetry         *)
(***************************************************************************)
\* the scheduled delay before the k-th sleep: initial_delay_ms, then
\* min(delay * backoff_multiplier, max_delay_ms), cut to whole milliseconds
RECURSIVE Scheduled(_, _)
Scheduled(k, config) ==
    IF k = 1 THEN config.initial_delay_ms
    ELSE LET grown == (Scheduled(k - 1, config) * config.backoff_tenths) \div 10
         IN  IF grown < config.max_delay_ms THEN grown ELSE config.max_delay_ms

\* the delay hint of the i-th outcome's error
HintOf(i) == retry_delay_ms(rw.outcomes[i].error)

\* C23: the loop sleeps after a failed attempt exactly when attempts remain
\* and the error is retryable; it sleeps for the error's hint if there is
\* one and for the scheduled delay otherwise; the scheduled delay starts at
\* initial_delay_ms and becomes min(delay * backoff_multiplier, max_delay_ms)
\* after each sleep.
C23_BackoffSchedule ==
    rw.pc # "idle"
    => /\ rw.delay_ms = Scheduled(Len(rw.sleeps) + 1, rw.config)
       /\ \A i \in 1..Len(rw.sleeps) :
             /\ ~rw.outcomes[i].ok
             /\ i < rw.config.max_attempts
             /\ is_retryable(rw.outcomes[i].error)
             /\ rw.sleeps[i] = IF HintOf(i) # NoneVal THEN HintOf(i)
                               ELSE Scheduled(i, rw.config)
       /\ \A i \in 1..Len(rw.outcomes) :
             (/\ ~rw.outcomes[i].ok
              /\ i < rw.config.max_attempts
              /\ is_retryable(rw.outcomes[i].error))
             => (i <= Len(rw.sleeps) \/ rw.pc = "sleep")

\* two sleeps with multiplier 1.5 from 10 ms: the scheduled delay is 22 ms
\* (10, 15, 22), the sleeps were the hints of the Network and Database errors
C23_Witness ==
    /\ rw.pc = "call"
    /\ rw.config = MkRetryConfig(3, 10, 100, 15)
    /\ rw.sleeps = <<1000, 500>>
    /\ rw.delay_ms = 22
    /\ rw.outcomes[1].error.kind = "Network"
    /\ rw.outcomes[2].error.kind = "Database"

\* C28: every retryable error has a delay hint, so every sleep of the loop
\* lasts the hint of the error before it, whatever the scheduled delay and
\* max_delay_ms are.
C28_SleepIsAlwaysTheHint ==
    /\ \A e \in ErrorSamples : is_retryable(e) => retry_delay_ms(e) # NoneVal
    /\ \A i \in 1..Len(rw.outcomes) :
          (~rw.outcomes[i].ok /\ is_retryable(rw.outcomes[i].error))
          => HintOf(i) # NoneVal
    /\ \A i \in 1..Len(rw.sleeps) : rw.sleeps[i] = HintOf(i)

\* a sleep of 500 ms (the Database hint) with max_delay_ms = 100 and a
\* scheduled delay of 60 ms
C28_Witness ==
    /\ rw.config = MkRetryConfig(3, 60, 100, 20)
    /\ Len(rw.sleeps) = 1
    /\ rw.sleeps[1] = 500
    /\ rw.sleeps[1] > rw.config.max_delay_ms
    /\ Scheduled(1, rw.config) = 60
    /\ rw.outcomes[1].error.kind = "Database"

\* C29: a sleep occurs only between two invocations: once the operation has
\* been invoked, the sleeps are one fewer than the invocations when the loop
\* has returned or is about to sleep, and as many as the invocations made
\* when the next invocation is about to start; none follows the last one.
C29_SleepsBetweenAttempts ==
    /\ rw.pc \in {"done", "sleep"} => Len(rw.sleeps) = rw.calls - 1
    /\ rw.pc = "call" => Len(rw.sleeps) = rw.calls
    /\ rw.pc \in {"start", "panicked", "idle"} => (rw.sleeps = <<>> /\ rw.calls = 0)
    /\ rw.pc = "sleep" => rw.calls < rw.config.max_attempts

\* three invocations with Database errors under max_attempts = 3: two sleeps
C29_Witness ==
    /\ rw.pc = "done"
    /\ rw.config.max_attempts = 3
    /\ rw.calls = 3
    /\ Len(rw.sleeps) = 2
    /\ \A i \in 1..3 : rw.outcomes[i].error.kind = "Database"
    /\ ~rw.result.ok

\* C30: with max_attempts >= 1 the operation is invoked at least once and at
\* most max_attempts times before the loop returns, and the loop returns the
\* last outcome: the Ok or the last error; with max_attempts = 0 the
\* operation is never invoked and the loop aborts without a result.
C30_AttemptBounds ==
    /\ rw.calls <= rw.config.max_attempts
    /\ rw.calls = Len(rw.outcomes)
    /\ rw.pc = "done"
       => /\ rw.config.max_attempts >= 1
          /\ rw.calls >= 1
          /\ rw.result = (IF rw.outcomes[rw.calls].ok
                          THEN rw.outcomes[rw.calls]
                          ELSE Err(rw.outcomes[rw.calls].error))
    /\ (rw.config.max_attempts = 0 /\ rw.pc \notin {"start", "idle"})
       => (rw.pc = "panicked" /\ rw.calls = 0 /\ rw.result = NoResult)
    /\ rw.pc = "panicked" => rw.config.max_attempts = 0

\* the loop returned the Database error of the second invocation, not the
\* Network error of the first, under max_attempts = 2
C30_Witness ==
    /\ rw.pc = "done"
    /\ rw.config.max_attempts = 2
    /\ rw.calls = 2
    /\ rw.outcomes[1].error.kind = "Network"
    /\ rw.outcomes[2].error.kind = "Database"
    /\ rw.result = Err(rw.outcomes[2].error)

\* max_attempts = 0: last_error.unwrap() has aborted the call
C30_WitnessZero ==
    /\ rw.pc = "panicked"
    /\ rw.config.max_attempts = 0
    /\ rw.calls = 0

(***************************************************************************)
(* Properties of the nested retry loops on a cold start, under SpecCold    *)
(***************************************************************************)
\* C24: with the default RetryConfig and a store whose open fails every
\* time, the first execute_with_cache call returns a Database error after
\* exactly 9 calls of initialize, 3 in each of its 3 get_connection calls,
\* and the pool is still None.
C24_NineOpensOnColdStart ==
    /\ (store.opened = 0 /\ env.calls = ColdCalls - 1)
       => /\ store.openAttempts <= 9
          /\ hist.conns[1] <= 3
          /\ pool = 0
          /\ task[1].pc # "done" => store.openAttempts < 9 \/ task[1].pc = "open"
    /\ (/\ task[1].pc = "done"
        /\ store.opened = 0
        /\ env.calls = ColdCalls - 1)
       => /\ ~task[1].result.ok
          /\ task[1].result.error = database("Failed to initialize database")
          /\ task[1].result.error.kind = "Database"
          /\ store.openAttempts = 9
          /\ hist.conns[1] = 3
          /\ task[1].attempt = 3
          /\ pool = 0
          /\ poolLock = 0

\* the call has returned the initialization error after the ninth failed open
C24_Witness ==
    /\ task[1].pc = "done"
    /\ task[1].result = Err(database("Failed to initialize database"))
    /\ store.opened = 0
    /\ store.openAttempts = 9
    /\ env.faults = ColdFaults - 9
    /\ pool = 0

(***************************************************************************)
(* Properties of the connection slot, under Spec                           *)
(***************************************************************************)
\* the parts of the store that initialize and the PRAGMA statements change
StoreSession == <<store.opened, store.openAttempts, store.pragmaCount, store.applied>>

\* C25: the pool of a new service is None; the only change of the pool is from
\* None to Some(handle); once it is Some it is never reset nor replaced, and
\* every later get_connection returns that handle without opening or
\* configuring a session again.
C25_ConnectionStateMonotonic ==
    /\ pool = 0
    /\ [][/\ pool' # pool => pool = 0 /\ pool' # 0
          /\ pool # 0 => /\ pool' = pool
                         /\ StoreSession' = StoreSession
                         /\ poolLock' = 0
                         /\ \A c \in Tasks :
                              /\ task'[c].pc \notin {"open", "openSleep", "pragma", "pragmaSleep"}
                              /\ task[c].pc = "lockPool" /\ task'[c].pc # "lockPool"
                                 => task'[c].pc = "exec" /\ task'[c].db = pool
       ]_vars

\* a call that found the pool initialized by the other caller has returned
C25_Witness ==
    /\ pool # 0
    /\ store.openAttempts = 1
    /\ store.opened = 1
    /\ \A c \in Tasks : /\ task[c].pc = "done" /\ task[c].result.ok
                         /\ hist.conns[c] = 1 /\ hist.okExecs[c] = 1

(***************************************************************************)
(* Properties of the cache content, under SpecSeq                          *)
(***************************************************************************)
\* the requests whose statement, trimmed and upper-cased, starts with SELECT
SelectReqs == {r \in ReqIds : ReqIsSelect[r]}

\* serializations of what the store can have returned for request r so far
ServedValues(r) == {to_string(StoreResult(r, ver)) : ver \in 0..store.version}

\* C26: after any sequence of execute_with_cache and clear_cache calls, every
\* cache entry has the key of a statement that starts with SELECT (trimmed,
\* upper-cased) and its parameters, and holds the serialization of a result the
\* store returned successfully for them; no error is ever stored.  An entry
\* appears only when a call inserts the result its execute has just returned.
C26_CacheContent ==
    /\ [](\A k \in DOMAIN query_cache :
            /\ \E r \in SelectReqs : k = ReqKey[r] /\ query_cache[k] \in ServedValues(r)
            /\ from_str(query_cache[k]).ok)
    /\ [][query_cache' # query_cache =>
            \/ query_cache' = EmptyCache
            \/ \E c \in Tasks :
                 /\ task[c].pc = "populate"
                 /\ task[c].req \in SelectReqs
                 /\ hist.okExecs[c] = 1
                 /\ task'[c].result = Ok(task[c].value)
                 /\ query_cache' = [k \in DOMAIN query_cache \cup {ReqKey[task[c].req]} |->
                                      IF k = ReqKey[task[c].req]
                                      THEN to_string(task[c].value)
                                      ELSE query_cache[k]]
       ]_vars

\* a read was cached, then a statement that is no SELECT returned its result
\* and left the cache as it was
C26_Witness ==
    /\ DOMAIN query_cache = {ReqKey[2]}
    /\ from_str(query_cache[ReqKey[2]]) = Ok(StoreResult(2, 0))
    /\ task[1].pc = "done"
    /\ task[1].req = 3
    /\ task[1].result = Ok(1)
    /\ store.version = 1
    /\ env.calls = SeqCalls - 2

\* a call that failed left nothing in the cache
C26_WitnessError ==
    /\ query_cache = EmptyCache
    /\ task[1].pc = "done"
    /\ task[1].req \in SelectReqs
    /\ ~task[1].result.ok

(***************************************************************************)
(* Properties of concurrent inserts into the cache, under SpecRace         *)
(***************************************************************************)
\* c's call is a read that missed the cache, executed and returned its result
MissedAndReturned(c) ==
    /\ task[c].pc = "done"
    /\ task[c].req \in SelectReqs
    /\ ~hist.hit[c]
    /\ task[c].result.ok

\* C22: when two execute_with_cache calls for the same read miss the cache
\* concurrently, each executes the statement and each inserts its own result;
\* an insert replaces whatever entry the key had (the last write wins), so
\* after both returned the key has one entry, the value of one of the two.
C22_ConcurrentPuts ==
    /\ [](\A c, d \in Tasks :
            (/\ c # d
             /\ MissedAndReturned(c) /\ MissedAndReturned(d)
             /\ task[c].req = task[d].req)
            => /\ hist.okExecs[c] = 1 /\ hist.okExecs[d] = 1
               /\ ReqKey[task[c].req] \in DOMAIN query_cache
               /\ query_cache[ReqKey[task[c].req]]
                     \in {to_string(task[c].value), to_string(task[d].value)})
    /\ [][\A c \in Tasks :
            (task[c].pc = "populate" /\ task'[c].pc = "done" /\ task'[c].result.ok)
            => /\ ReqKey[task[c].req] \in DOMAIN query_cache'
               /\ query_cache'[ReqKey[task[c].req]] = to_string(task[c].value)
               /\ \A k \in DOMAIN query_cache' \ {ReqKey[task[c].req]} :
                     k \in DOMAIN query_cache /\ query_cache'[k] = query_cache[k]
       ]_vars

\* both calls missed and returned; the one that read before a write inserted
\* after the one that read after it, and its older value is the entry
C22_Witness ==
    \E c, d \in Tasks :
        /\ MissedAndReturned(c) /\ MissedAndReturned(d)
        /\ task[c].req = task[d].req
        /\ task[c].value < task[d].value
        /\ Cardinality(DOMAIN query_cache) = 1
        /\ query_cache[ReqKey[task[c].req]] = to_string(task[c].value)

(***************************************************************************)
(* Termination of execute_with_cache, under SpecLive                       *)
(***************************************************************************)
\* task c is inside an execute_with_cache call
InCall(c) == task[c].pc \notin {"idle", "done"}

Creating ==
    IF cmd.inp = 0 THEN FALSE
    ELSE CmdInputs[cmd.inp].name = "create_manuscript_safe"

\* C27 as stated: in one invocation of create_manuscript_safe the store
\* receives the manuscripts INSERT at most 3 times.
C27_InsertReceivedAtMostThrice ==
    Creating => cmd.firstSent <= 3

\* C27: create_manuscript_safe is not atomic under retry.  When the scenes
\* INSERT returns a Database error after the manuscripts INSERT succeeded, the
\* handler's loop runs the whole closure again: the manuscripts INSERT is
\* issued again with the same manuscript id and nothing the store applied is
\* undone.  In one invocation the closure runs at most 3 times, so the
\* manuscripts INSERT succeeds at most 3 times; the store receives it at most
\* 9 times, since each execute_with_cache call repeats a failed execute up to
\* 3 times itself.  The handler can return an error with the row inserted.
C27_NotAtomicUnderRetry ==
    /\ [](Creating =>
            /\ cmd.attempt <= 3
            /\ cmd.firstApplied <= 3
            /\ cmd.firstApplied <= cmd.attempt
            /\ cmd.firstSent <= 9
            /\ cmd.firstApplied <= store.version)
    /\ [][/\ store'.version >= store.version
          /\ (Creating /\ cmd.pc = "sleep" /\ cmd'.pc = "op")
             => /\ cmd'.stmt = 1
                /\ cmd'.attempt = cmd.attempt + 1
                /\ cmd'.firstApplied = cmd.firstApplied
          /\ (Creating /\ cmd.pc = "op" /\ cmd'.pc = "wait" /\ cmd.stmt = 1)
             => /\ task'[1].req = StmtBase[cmd.inp] + 1
                /\ Requests[task'[1].req].sql = InsertManuscriptSql.sql
                /\ Requests[task'[1].req].params[1] = NewManuscriptId
          /\ (Creating /\ cmd.pc = "wait" /\ cmd'.pc = "sleep" /\ cmd.stmt = 2)
             => /\ cmd.firstApplied >= 1
                /\ cmd'.last_error.kind = "Database"
       ]_vars

\* the handler has returned the Database error of the scenes INSERT after its
\* third run of the closure; each run's manuscripts INSERT succeeded
C27_Witness ==
    /\ Creating
    /\ cmd.pc = "done"
    /\ ~cmd.result.ok
    /\ cmd.result.error.kind = "Database"
    /\ cmd.attempt = 3
    /\ cmd.firstApplied = 3
    /\ cmd.firstSent = 3
    /\ store.version = 3

\* every execute of the manuscripts INSERT failed: 3 in each of the 3 runs
C27_WitnessNine ==
    /\ Creating
    /\ cmd.pc = "done"
    /\ ~cmd.result.ok
    /\ cmd.firstSent = 9
    /\ cmd.firstApplied = 0

====
